---- MODULE Spec2Model ----
(***************************************************************************)
(* Model of the code-execution core of NeuronLab-ID/backend:               *)
(*   src/app/services/executor.py  (Host Executor: execute_code,           *)
(*                                  run_in_docker_cli)                     *)
(*   src/sandbox/runner.py         (Sandbox Runner: run_tests, main)       *)
(*                                                                         *)
(* A Python string is a sequence of tokens.  A token is a piece of text, a *)
(* run of whitespace, a lone '{', or one complete JSON document as         *)
(* json.dumps writes it; a document is kept as the value json.loads gives  *)
(* back for it.                                                            *)
(***************************************************************************)
EXTENDS Integers, Sequences, FiniteSets, TLC

(***************************************************************************)
(* Bounds of the model.                                                    *)
(***************************************************************************)
\* number of execute_code calls in flight in ConcSpec (one per server process)
MaxCalls == 2
\* largest number of test cases in a request
MaxTests == 2
\* largest timeout (seconds) a request carries
MaxTimeout == 2

(***************************************************************************)
(* Program constants.                                                      *)
(***************************************************************************)
\* executor.py:84 and :93, timeout=5 of both probes
PROBE_TIMEOUT == 5
\* executor.py:149, stdout[:500]
INVALID_OUTPUT_PREFIX == 500
\* executor.py:144, extra_output[:200]
WARNING_PREFIX == 200

(***************************************************************************)
(* Strings, None, JSON values.                                             *)
(***************************************************************************)
\* Python None / a str value
None == [some |-> FALSE, s |-> <<>>]
Some(str) == [some |-> TRUE, s |-> str]

\* placeholder carried by the tokens that are no JSON document
NoDoc ==
  [type |-> "none", keys |-> {}, statusFirst |-> FALSE, status |-> "",
   results |-> <<>>, error |-> None, warning |-> None]

\* a piece of text without '{' and without surrounding whitespace
T(text) == [t |-> "text", s |-> text, d |-> NoDoc]
\* whitespace (the newline print() appends, blanks around a document)
WS == [t |-> "ws", s |-> "\n", d |-> NoDoc]
\* a '{' that opens nothing json.loads accepts
Brace == [t |-> "brace", s |-> "{", d |-> NoDoc]
\* one JSON document
J(doc) == [t |-> "json", s |-> "", d |-> doc]

Min(a, b) == IF a < b THEN a ELSE b

\* the tokens before token position k + 1
Before(str, k) == SubSeq(str, 1, Min(Len(str), k))

\* the first k characters of a text that begins with a token whose
\* characters the model does not hold (a document, a number, an array)
Cut(str, k) == [t |-> "cut", s |-> "", d |-> NoDoc, of |-> str, n |-> k]

\* s[:k], k counted in characters
RECURSIVE Prefix(_, _)
Prefix(str, k) ==
  IF k <= 0 \/ str = <<>> THEN <<>>
  ELSE LET tok == Head(str)
       IN  IF tok.t = "text"
           THEN IF Len(tok.s) <= k
                THEN <<tok>> \o Prefix(Tail(str), k - Len(tok.s))
                ELSE <<T(SubSeq(tok.s, 1, k))>>
           ELSE IF tok.t \in {"ws", "brace"}
                THEN <<tok>> \o Prefix(Tail(str), k - 1)
                ELSE <<Cut(str, k)>>

\* s[k:] with k a 1-based position
Suffix(str, k) == SubSeq(str, k, Len(str))

RECURSIVE LStrip(_)
LStrip(str) ==
  IF str # <<>> /\ Head(str).t = "ws" THEN LStrip(Tail(str)) ELSE str

RECURSIVE RStrip(_)
RStrip(str) ==
  IF str # <<>> /\ str[Len(str)].t = "ws"
  THEN RStrip(SubSeq(str, 1, Len(str) - 1)) ELSE str

\* str.strip()
Strip(str) == RStrip(LStrip(str))

\* sub in str
Contains(str, sub) ==
  \E k \in 1..(Len(str) - Len(sub) + 1) : SubSeq(str, k, k + Len(sub) - 1) = sub

Digit == <<"0", "1", "2", "3", "4", "5", "6", "7", "8", "9">>

\* the decimal text of an int, as an f-string formats it
RECURSIVE DecDigits(_)
DecDigits(n) ==
  IF n < 0 THEN <<T("-")>> \o DecDigits(0 - n)
  ELSE IF n < 10 THEN <<T(Digit[n + 1])>>
  ELSE DecDigits(n \div 10) \o <<T(Digit[(n % 10) + 1])>>

(***************************************************************************)
(* Messages of the Host Executor.                                          *)
(***************************************************************************)
DockerNotRunning == <<T("Docker is not running")>>

CliNotFound == <<T("Docker CLI not found. Please install Docker.")>>

BuildCommand(image) == <<T("docker build -t "), T(image), T(" sandbox/")>>

ImageNotFound(image) ==
  <<T("Sandbox image '"), T(image), T("' not found. Run: ")>> \o BuildCommand(image)

TimedOutMsg(timeout) ==
  <<T("Execution timed out after ")>> \o DecDigits(timeout) \o <<T(" seconds")>>

InvalidOutput(stdout) ==
  <<T("Invalid output from sandbox: ")>> \o Prefix(stdout, INVALID_OUTPUT_PREFIX)

ExitCodeMsg(rc) == <<T("Exit code: ")>> \o DecDigits(rc)

ExtraOutputWarning(extra) ==
  <<T("Code produced extra output: ")>> \o Prefix(extra, WARNING_PREFIX)

\* str(e) of the exceptions the model raises
ExcStr(exc) == <<T(exc)>>

\* {"status": "error", "error": msg}
ErrDoc(msg) ==
  [type |-> "object", keys |-> {"status", "error"}, statusFirst |-> TRUE,
   status |-> "error", results |-> <<>>, error |-> Some(msg), warning |-> None]

(***************************************************************************)
(* Commands the Host Executor gives to the container runtime.              *)
(***************************************************************************)
HealthCmd == <<"docker", "info">>

ImageCmd(image) == <<"docker", "image", "inspect", image>>

RunCmd_NetworkLeftOn(image, memory) ==
  <<"docker", "run", "--rm", "-i", "--memory", memory, "--cpus", "1",
    "--user", "nobody", "--tmpfs", "/tmp:size=64m", image, "python", "runner.py">>

RunCmd(image, memory) ==
  <<"docker", "run", "--rm", "-i", "--network", "none", "--memory", memory,
    "--cpus", "1", "--user", "nobody", "--tmpfs", "/tmp:size=64m",
    image, "python", "runner.py">>

KillCmd == <<"docker", "kill", "$(docker ps -q)">>

\* json.dumps({"code": code, "test_cases": test_cases})
Payload(code, ntests) == [given |-> TRUE, code |-> code, ntests |-> ntests]
NoPayload == [given |-> FALSE, code |-> "", ntests |-> 0]

\* one subprocess.run(argv, input=, timeout=, shell=) call; secs = 0 with
\* bounded = FALSE is a call without timeout=
Invocation(argv, stdin, shell, bounded, secs) ==
  [argv |-> argv, stdin |-> stdin, shell |-> shell, bounded |-> bounded, secs |-> secs]

\* check.returncode != 0
HealthFails(rc) == rc # 0

ImageFails_Ignored(rc) == FALSE

\* check_image.returncode != 0
ImageFails(rc) == rc # 0

(***************************************************************************)
(* The containers "docker kill $(docker ps -q)" reaches, given the set of  *)
(* running containers.  subprocess.run is given a list together with       *)
(* shell=True: on POSIX Popen executes                                     *)
(*     /bin/sh -c docker kill '$(docker ps -q)'                            *)
(* whose command string is the first item alone ("docker"); the other two  *)
(* items become the shell's $0 and $1 and are never run.  On Windows the   *)
(* list is joined by list2cmdline into  docker kill "$(docker ps -q)"  and *)
(* cmd.exe substitutes nothing, so docker is asked to kill a container of  *)
(* that literal name.  Either way no container is killed.                  *)
(***************************************************************************)
KillTargets_AllRunning(running) == running

KillTargets(running) == {}

(***************************************************************************)
(* Sandbox Runner, seen from outside: run_tests and main.                  *)
(***************************************************************************)
TestOutcomes == {"pass", "fail", "raise"}

\* one entry of results (runner.py:109-126)
Entry(k, outcome) ==
  [test_number |-> k, hasPassed |-> TRUE, passed |-> (outcome = "pass"),
   errored |-> (outcome = "raise")]

\* the file name of the runner as a traceback prints it: the absolute path
\* of the script python was started with (executor.py:113, "python",
\* "runner.py"); its directory is the working directory of the image, which
\* the source does not fix, and is kept as one token
RunnerPath == T("<cwd>/runner.py")

\* What exec(code, namespace) raised, for the programs of the model: type
\* and str are type(e).__name__ and str(e).  The other fields are what
\* traceback.format_exc() prints for it: context, the exceptions that were
\* being handled when it was raised, with the line that joins them; frames,
\* the lines after the frame of run_tests; last, the lines of the exception
\* itself, which for an empty message are the type alone.
\* the program is the text x: NameError while the module runs
RaisedNameError ==
  [type |-> "NameError", str |-> "name 'x' is not defined",
   context |-> <<>>,
   frames |-> <<T("  File \"<string>\", line 1, in <module>"), WS>>,
   last |-> <<T("NameError: name 'x' is not defined"), WS>>]
\* the program is the number 5: exec itself raises, no frame of the program
RaisedTypeError ==
  [type |-> "TypeError", str |-> "exec() arg 1 must be a string, bytes or code object",
   context |-> <<>>,
   frames |-> <<>>,
   last |-> <<T("TypeError: exec() arg 1 must be a string, bytes or code object"), WS>>]
\* the program is the text def: the compiler raises; the traceback shows the
\* source line and a caret instead of a frame
RaisedSyntaxError ==
  [type |-> "SyntaxError", str |-> "invalid syntax (<string>, line 1)",
   context |-> <<>>,
   frames |-> <<T("  File \"<string>\", line 1"), WS, T("    def"), WS, T("       ^"), WS>>,
   last |-> <<T("SyntaxError: invalid syntax"), WS>>]
\* the program is the text raise ValueError: an exception without a message
RaisedValueError ==
  [type |-> "ValueError", str |-> "",
   context |-> <<>>,
   frames |-> <<T("  File \"<string>\", line 1, in <module>"), WS>>,
   last |-> <<T("ValueError"), WS>>]
\* the program raises KeyError('k') in the handler of the NameError of x
\* (try: x / except NameError: raise KeyError('k')): a chained exception
RaisedInHandler ==
  [type |-> "KeyError", str |-> "'k'",
   context |-> <<T("Traceback (most recent call last):"), WS,
                 T("  File \"<string>\", line 2, in <module>"), WS,
                 T("NameError: name 'x' is not defined"), WS, WS,
                 T("During handling of the above exception, another exception occurred:"),
                 WS, WS>>,
   frames |-> <<T("  File \"<string>\", line 4, in <module>"), WS>>,
   last |-> <<T("KeyError: 'k'"), WS>>]

\* traceback.format_exc() inside the except clause of exec(code, namespace)
\* (runner.py:45-49): the exceptions handled before, then the frame of
\* run_tests, the lines of the program, the lines of the exception
Traceback(e) ==
  e.context
  \o <<T("Traceback (most recent call last):"), WS,
       T("  File \""), RunnerPath, T("\", line 45, in run_tests"), WS,
       T("    exec(code, namespace)"), WS>>
  \o e.frames
  \o e.last

\* f"Code execution error: {type(e).__name__}: {str(e)}\n{traceback.format_exc()}"
CodeExecutionError(e) ==
  <<T("Code execution error: "), T(e.type), T(": "), T(e.str), WS>> \o Traceback(e)

CodeErrorMsg == CodeExecutionError(RaisedNameError)

\* run_tests(code, test_cases): codeRaises says whether exec(code) raised an
\* Exception, outs[k] what evaluating test case k did
RunTests(codeRaises, outs) ==
  IF codeRaises
  THEN [type |-> "object", keys |-> {"status", "error", "results"}, statusFirst |-> TRUE,
        status |-> "error", results |-> <<>>, error |-> Some(CodeErrorMsg),
        warning |-> None]
  ELSE [type |-> "object", keys |-> {"status", "results", "error"}, statusFirst |-> TRUE,
        status |-> "success", results |-> [k \in 1..Len(outs) |-> Entry(k, outs[k])],
        error |-> None, warning |-> None]

\* main(): print(json.dumps(result)) writes the document and a newline
RunnerStdout(doc) == <<J(doc), WS>>

(***************************************************************************)
(* run_in_docker_cli: decoding what the child process left behind          *)
(* (executor.py:123-151).                                                  *)
(***************************************************************************)
\* F(x), x being evaluated once however often F uses it
With(x, F(_)) == CHOOSE r \in {F(v) : v \in {x}} : TRUE

\* the characters of a token: one record per character, a document being
\* one character of its own (j = TRUE)
RECURSIVE CharsOf(_, _, _)
CharsOf(text, lo, hi) ==
  IF lo > hi THEN <<>>
  ELSE IF lo = hi THEN <<[c |-> SubSeq(text, lo, lo), j |-> FALSE, d |-> NoDoc]>>
  ELSE With((lo + hi) \div 2, LAMBDA m : CharsOf(text, lo, m) \o CharsOf(text, m + 1, hi))

RECURSIVE Flat(_)
Flat(str) ==
  IF str = <<>> THEN <<>>
  ELSE LET tok == Head(str)
       IN  (IF tok.t = "json" THEN <<[c |-> "", j |-> TRUE, d |-> tok.d]>>
            ELSE IF tok.t \in {"text", "ws", "brace"} THEN CharsOf(tok.s, 1, Len(tok.s))
            ELSE <<[c |-> "?", j |-> FALSE, d |-> NoDoc]>>)
           \o Flat(Tail(str))

\* the characters i.. of f spell word
Spells(f, i, word) ==
  /\ i + Len(word) - 1 <= Len(f)
  /\ \A k \in 1..Len(word) : ~f[i + k - 1].j /\ f[i + k - 1].c = SubSeq(word, k, k)

IsChar(f, i, set) == i <= Len(f) /\ ~f[i].j /\ f[i].c \in set

DigitChars == {"0", "1", "2", "3", "4", "5", "6", "7", "8", "9"}
HexChars == DigitChars \cup {"a", "b", "c", "d", "e", "f", "A", "B", "C", "D", "E", "F"}

\* the first position of lo..hi that holds no character of set, hi + 1 when
\* all of them do
RECURSIVE FirstNot(_, _, _, _)
FirstNot(f, lo, hi, set) ==
  IF lo > hi THEN lo
  ELSE IF lo = hi THEN (IF IsChar(f, lo, set) THEN lo + 1 ELSE lo)
  ELSE With((lo + hi) \div 2, LAMBDA m :
         With(FirstNot(f, lo, m, set), LAMBDA k :
           IF k <= m THEN k ELSE FirstNot(f, k, hi, set)))

\* the first position at or after i that holds no JSON whitespace
SkipWs(f, i) == FirstNot(f, i, Len(f), {" ", "\n", "\t", "\r"})

\* the first position at or after i that holds no digit
SkipDigits(f, i) == FirstNot(f, i, Len(f), DigitChars)

\* sys.get_int_max_str_digits(): int() of a text of more digits raises
\* ValueError
INT_MAX_STR_DIGITS == 4300

\* sys.getrecursionlimit(): the scanner enters one level for every list
\* and every object it opens, an empty one included, on top of the frames
\* in use
RECURSION_LIMIT == 1000

\* the frames in use when the scanner of json.loads starts (executor.py:130
\* and :140, the same frame), execute_code being run by asyncio.run from
\* the top level of a module (CPython 3.11): the event loop, execute_code,
\* run_in_docker_cli, json.loads and the decoder.  Every frame the caller
\* adds lowers NestLimit by one.
FRAMES_IN_USE == 14

\* the least number of containers, one inside the other, whose reading
\* raises RecursionError
NestLimit == RECURSION_LIMIT - FRAMES_IN_USE

\* a JSON number at i, the longest match of
\* -?(0|[1-9][0-9]*)(\.[0-9]+)?([eE][-+]?[0-9]+)?:
\* [end |-> the position after it (0: none), float, digits of the integer]
NumberAt(f, i) ==
  With(IF IsChar(f, i, {"-"}) THEN i + 1 ELSE i, LAMBDA a :
    IF ~IsChar(f, a, DigitChars) THEN [end |-> 0, float |-> FALSE, digits |-> 0]
    ELSE
    With(IF f[a].c = "0" THEN a + 1 ELSE SkipDigits(f, a), LAMBDA b :
      With(IF IsChar(f, b, {"."}) /\ IsChar(f, b + 1, DigitChars)
           THEN SkipDigits(f, b + 1) ELSE b, LAMBDA c :
        With(IF IsChar(f, c, {"e", "E"})
             THEN (IF IsChar(f, c + 1, {"+", "-"}) THEN c + 2 ELSE c + 1) ELSE c, LAMBDA e :
          With(IF e > c /\ IsChar(f, e, DigitChars) THEN SkipDigits(f, e) ELSE c, LAMBDA g :
            [end |-> g, float |-> g > b, digits |-> b - a])))))

\* the control characters, U+0001 .. U+001F, which a JSON string holds only
\* escaped; they stand here as they are where a string has no escape for
\* them.  U+0000 is not among the characters of the model's texts.
ControlChars ==
  {"\t", "\n", "\f", "\r",
   "", "", "", "", "", "", "", "", "",
   "", "", "", "", "", "", "", "", "",
   "", "", "", "", "", "", "", "", ""}

\* json.dumps(doc) holds a '"': the document has a key.  The documents
\* without one are [] and {}.
HoldsQuote(doc) == doc.keys # {}

\* the position after the closing quote of the JSON string whose characters
\* begin at i (0: none).  A control character ends the reading.  A document
\* between the quotes is text of the string when it holds no quote; one that
\* does closes the string with its first quote, and the name of a key
\* follows, which no JSON text allows after a string.
RECURSIVE StringEnd(_, _)
StringEnd(f, i) ==
  IF i > Len(f) THEN 0
  ELSE IF f[i].j THEN (IF HoldsQuote(f[i].d) THEN 0 ELSE StringEnd(f, i + 1))
  ELSE IF f[i].c \in ControlChars THEN 0
  ELSE IF f[i].c = "\"" THEN i + 1
  ELSE IF f[i].c = "\\"
       THEN IF IsChar(f, i + 1, {"\"", "\\", "/", "b", "f", "n", "r", "t"})
            THEN StringEnd(f, i + 2)
            ELSE IF /\ IsChar(f, i + 1, {"u"})
                    /\ \A k \in 2..5 : IsChar(f, i + k, HexChars)
                 THEN StringEnd(f, i + 6)
                 ELSE 0
  ELSE StringEnd(f, i + 1)

\* the Python type of the JSON value that begins at i
TypeAt(f, i) ==
  IF f[i].j THEN f[i].d.type
  ELSE IF f[i].c = "[" THEN "list"
  ELSE IF f[i].c = "\"" THEN "str"
  ELSE IF Spells(f, i, "null") THEN "NoneType"
  ELSE IF Spells(f, i, "true") \/ Spells(f, i, "false") THEN "bool"
  ELSE With(NumberAt(f, i), LAMBDA n :
         IF n.end # 0 /\ ~n.float THEN "int" ELSE "float")

\* what reading a value came to when it is no position: 0, no JSON
\* (JSONDecodeError); RecursionError raised on entering a list or an object;
\* 0 - n, int() refused a number of n digits (n > INT_MAX_STR_DIGITS)
RecursionInArray == 0 - 1
RecursionInObject == 0 - 2

\* the containers of json.dumps(doc), one inside the other: the document,
\* the list of its results, an entry of the list, and the "input" of an
\* entry that echoes a test which is an object (runner.py:109-113); the
\* other fields of an entry are numbers, texts, true, false or null
DocDepth(doc) ==
  IF doc.type = "object" /\ "results" \in doc.keys
  THEN IF \E k \in 1..Len(doc.results) :
            /\ "input" \in DOMAIN doc.results[k]
            /\ doc.results[k].input = "{\"status\": 1} (object)"
       THEN 4
       ELSE IF Len(doc.results) > 0 THEN 3 ELSE 2
  ELSE 1

\* the container of doc at level k is a list: [] itself, the results of an
\* object; the document, an entry and its input are objects
ListAtLevel(doc, k) == IF doc.type = "list" THEN k = 1 ELSE k = 2

\* the position after the JSON value that begins at i, inside depth
\* containers; an object is a document token, the other values are read
\* character by character.  A run of '[' opens that many lists, each the
\* first item of the one before; ListsEnd reads on in the n lists around the
\* value that ended before v, the innermost of them inside depth containers.
RECURSIVE ValueEnd(_, _, _), ItemsEnd(_, _, _), ListsEnd(_, _, _, _)
ValueEnd(f, i, depth) ==
  IF i > Len(f) THEN 0
  ELSE IF f[i].j
       THEN IF depth + DocDepth(f[i].d) >= NestLimit
            THEN (IF ListAtLevel(f[i].d, NestLimit - depth)
                  THEN RecursionInArray ELSE RecursionInObject)
            ELSE i + 1
  ELSE IF f[i].c = "["
       THEN IF depth + (FirstNot(f, i, Len(f), {"["}) - i) >= NestLimit
            THEN RecursionInArray
            ELSE With(FirstNot(f, i, Len(f), {"["}) - i, LAMBDA run :
                   With(SkipWs(f, i + run), LAMBDA k :
                     ListsEnd(f, IF IsChar(f, k, {"]"}) THEN k + 1
                                 ELSE ItemsEnd(f, k, depth + run),
                              depth + run - 1, run - 1)))
  ELSE IF f[i].c = "\"" THEN StringEnd(f, i + 1)
  ELSE IF Spells(f, i, "null") \/ Spells(f, i, "true") THEN i + 4
  ELSE IF Spells(f, i, "false") THEN i + 5
  ELSE IF Spells(f, i, "NaN") THEN i + 3
  ELSE IF Spells(f, i, "Infinity") THEN i + 8
  ELSE IF Spells(f, i, "-Infinity") THEN i + 9
  ELSE With(NumberAt(f, i), LAMBDA n :
         IF n.end # 0 /\ ~n.float /\ n.digits > INT_MAX_STR_DIGITS THEN 0 - n.digits
         ELSE n.end)
ItemsEnd(f, i, depth) ==
  With(ValueEnd(f, i, depth), LAMBDA v :
    IF v <= 0 THEN v
    ELSE With(SkipWs(f, v), LAMBDA k :
           IF IsChar(f, k, {"]"}) THEN k + 1
           ELSE IF IsChar(f, k, {","})
                THEN With(SkipWs(f, k + 1), LAMBDA n : ItemsEnd(f, n, depth))
           ELSE 0))
ListsEnd(f, v, depth, n) ==
  IF v <= 0 \/ n = 0 THEN v
  ELSE With(SkipWs(f, v), LAMBDA k :
         With(Min(n, FirstNot(f, k, Len(f), {"]"}) - k), LAMBDA closed :
           IF closed > 0 THEN ListsEnd(f, k + closed, depth - closed, n - closed)
           ELSE IF IsChar(f, k, {","})
                THEN With(SkipWs(f, k + 1), LAMBDA m :
                       ListsEnd(f, ItemsEnd(f, m, depth), depth - 1, n - 1))
           ELSE 0))

\* a JSON value that is no object: only its Python type is kept
Scalar(type) ==
  [type |-> type, keys |-> {}, statusFirst |-> FALSE, status |-> "",
   results |-> <<>>, error |-> None, warning |-> None]

\* what json.loads came to: the value, json.JSONDecodeError (NoJson), or
\* another exception, exc being its str()
NoJson == [ok |-> FALSE, val |-> NoDoc, exc |-> <<>>]
Loaded(doc) == [ok |-> TRUE, val |-> doc, exc |-> <<>>]
LoadRaised(msg) == [ok |-> FALSE, val |-> NoDoc, exc |-> msg]

RecursionErrorMsg(container) ==
  <<T("maximum recursion depth exceeded while decoding a JSON "), T(container),
    T(" from a unicode string")>>

IntDigitsErrorMsg(n) ==
  <<T("Exceeds the limit (")>> \o DecDigits(INT_MAX_STR_DIGITS)
  \o <<T(" digits) for integer string conversion: value has ")>> \o DecDigits(n)
  \o <<T(" digits; use sys.set_int_max_str_digits() to increase the limit")>>

\* json.loads of a text that is no single document token: the whole text,
\* whitespace around it aside, is one JSON value: a list, a string, a number,
\* true, false or null
ReadValue(f) ==
  With(SkipWs(f, 1), LAMBDA i :
    With(ValueEnd(f, i, 0), LAMBDA e :
      IF e = RecursionInArray THEN LoadRaised(RecursionErrorMsg("array"))
      ELSE IF e = RecursionInObject THEN LoadRaised(RecursionErrorMsg("object"))
      ELSE IF e < 0 THEN LoadRaised(IntDigitsErrorMsg(0 - e))
      ELSE IF e # 0 /\ SkipWs(f, e) = Len(f) + 1
      THEN Loaded(IF f[i].j THEN f[i].d ELSE Scalar(TypeAt(f, i)))
      ELSE NoJson))

\* the characters a JSON value that is no object can begin with
CanBegin(text) ==
  SubSeq(text, 1, 1) \in DigitChars \cup {"[", "\"", "-", "n", "t", "f", "N", "I"}

\* json.loads(str)
JsonLoads(str) ==
  LET x == Strip(str)
  IN  IF x = <<>> THEN NoJson
      ELSE IF x[1].t = "json"
           THEN IF Len(x) = 1 THEN Loaded(x[1].d) ELSE NoJson
      ELSE IF x[1].t # "text" \/ ~CanBegin(x[1].s) THEN NoJson
      ELSE With(Flat(x), LAMBDA f : ReadValue(f))

MaxOf(S) == CHOOSE m \in S : \A k \in S : k <= m

\* the document holds '{"status":' after its first character: a result
\* entry echoes as "input" a test that is an object whose first key is status
NestedStatus(doc) ==
  \E k \in 1..Len(doc.results) :
    /\ "input" \in DOMAIN doc.results[k]
    /\ doc.results[k].input = "{\"status\": 1} (object)"

\* what the text tokens from position k on spell, up to the next token of
\* another kind
RECURSIVE TextFrom(_, _)
TextFrom(str, k) ==
  IF k > Len(str) \/ str[k].t # "text" THEN ""
  ELSE str[k].s \o TextFrom(str, k + 1)

\* s.startswith(p)
StartsWith(s, p) == Len(s) >= Len(p) /\ SubSeq(s, 1, Len(p)) = p

\* the characters '{"status":' outside every document: a '{' followed by
\* text that begins with "status":
LiteralStatus(str, k) ==
  str[k].t = "brace" /\ StartsWith(TextFrom(str, k + 1), "\"status\":")

\* stdout.rfind('{"status":'), the token it falls in, 1-based; 0 is Python's -1
RFindStatus(str) ==
  LET S == {k \in 1..Len(str) :
              \/ /\ str[k].t = "json"
                 /\ str[k].d.type = "object"
                 /\ (str[k].d.statusFirst \/ NestedStatus(str[k].d))
              \/ LiteralStatus(str, k)}
  IN  IF S = {} THEN 0 ELSE MaxOf(S)

\* the token holds a '{'
HasBrace(tok) == tok.t = "brace" \/ (tok.t = "json" /\ tok.d.type = "object")

\* the text holds a '{'
HoldsBrace(str) ==
  \E k \in 1..Len(str) :
    \/ HasBrace(str[k])
    \/ str[k].t = "text" /\ \E c \in 1..Len(str[k].s) : SubSeq(str[k].s, c, c) = "{"

\* the right-most '{' of the token is not its first character: the document
\* holds result entries, which are objects themselves, or a text (status,
\* error, warning) with a '{' in it
InnerBrace(tok) ==
  /\ tok.t = "json"
  /\ tok.d.type = "object"
  /\ \/ "results" \in tok.d.keys /\ Len(tok.d.results) > 0
     \/ "status" \in tok.d.keys /\ HoldsBrace(<<T(tok.d.status)>>)
     \/ "error" \in tok.d.keys /\ tok.d.error.some /\ HoldsBrace(tok.d.error.s)
     \/ "warning" \in tok.d.keys /\ tok.d.warning.some /\ HoldsBrace(tok.d.warning.s)

\* stdout.rfind('{'), the token it falls in; 0 is Python's -1
RFindBrace(str) ==
  LET S == {k \in 1..Len(str) : HasBrace(str[k])}
  IN  IF S = {} THEN 0 ELSE MaxOf(S)

\* result["warning"] = ... when there is extra output and "results" in result
WithWarning(doc, extra) ==
  IF extra # <<>> /\ "results" \in doc.keys
  THEN [doc EXCEPT !.keys = @ \cup {"warning"},
                   !.warning = Some(ExtraOutputWarning(extra))]
  ELSE doc

\* the branch proc.returncode == 0 (executor.py:126-149); stdout is stripped.
\* An exception of json.loads that is no JSONDecodeError leaves both try
\* statements and is caught by except Exception (executor.py:159-160).
DecodeZeroExit(stdout) ==
  LET direct == JsonLoads(stdout)
      st == RFindStatus(stdout)
      json_start == IF st # 0 THEN st ELSE RFindBrace(stdout)
      inner == \/ st = 0 /\ json_start # 0 /\ InnerBrace(stdout[json_start])
               \/ st # 0 /\ NestedStatus(stdout[st].d)
      sliced == IF json_start # 0 /\ ~inner
                THEN JsonLoads(Suffix(stdout, json_start))
                ELSE NoJson
      extra_output == IF json_start # 0
                      THEN Strip(Before(stdout, json_start - 1)) ELSE <<>>
  IN  IF direct.exc # <<>> THEN ErrDoc(direct.exc)
      ELSE IF direct.ok THEN direct.val
      ELSE IF sliced.exc # <<>> THEN ErrDoc(sliced.exc)
      ELSE IF sliced.ok THEN WithWarning(sliced.val, extra_output)
      ELSE ErrDoc(InvalidOutput(stdout))

\* stderr or stdout or f"Exit code: {proc.returncode}"
NonZeroExitError(rc, stdout, stderr) ==
  IF stderr # <<>> THEN stderr
  ELSE IF stdout # <<>> THEN stdout
  ELSE ExitCodeMsg(rc)

UnicodeErrorMsg == ExcStr("'utf-8' codec can't decode byte 0xff in position 0: invalid start byte")

Completed_DecodesAnyExit(rc, out, err, decodable) ==
  IF ~decodable THEN ErrDoc(UnicodeErrorMsg)
  ELSE IF rc = 0 \/ JsonLoads(Strip(out)).ok THEN DecodeZeroExit(Strip(out))
  ELSE ErrDoc(NonZeroExitError(rc, Strip(out), Strip(err)))

\* executor.py:123-151 and :159-160: what run_in_docker_cli returns once the
\* child has exited with code rc; decodable = FALSE when its output is not UTF-8
Completed(rc, out, err, decodable) ==
  IF ~decodable THEN ErrDoc(UnicodeErrorMsg)
  ELSE IF rc = 0 THEN DecodeZeroExit(Strip(out))
  ELSE ErrDoc(NonZeroExitError(rc, Strip(out), Strip(err)))

(***************************************************************************)
(* execute_code: mapping what run_in_docker_cli returned or raised to the  *)
(* caller's result (executor.py:38-71).                                    *)
(***************************************************************************)
\* execution_time: wall = TRUE is time.time() - start_time, a measured value
\* the model does not count; wall = FALSE is the number secs itself
WallClock == [wall |-> TRUE, secs |-> 0]
Exactly(secs) == [wall |-> FALSE, secs |-> secs]

Returned(success, results, error, execution_time) ==
  [raised |-> FALSE, exc |-> "",
   fields |-> {"success", "results", "error", "execution_time"},
   success |-> success, results |-> results, error |-> error,
   execution_time |-> execution_time]

\* an exception leaving execute_code
Raised(exc) ==
  [raised |-> TRUE, exc |-> exc, fields |-> {}, success |-> FALSE,
   results |-> <<>>, error |-> None, execution_time |-> WallClock]

\* what a run_in_docker_cli call comes to
Value(doc) == [kind |-> "value", val |-> doc, exc |-> ""]
Raise(exc) == [kind |-> "raise", val |-> NoDoc, exc |-> exc]

\* all(r["passed"] for r in results), left to right, stopping at the first
\* falsy value: "true", "false", or "KeyError" when an entry has no "passed"
RECURSIVE AllPassedFrom(_, _)
AllPassedFrom(results, k) ==
  IF k > Len(results) THEN "true"
  ELSE IF ~results[k].hasPassed THEN "KeyError"
  ELSE IF ~results[k].passed THEN "false"
  ELSE AllPassedFrom(results, k + 1)

OnException_Escapes(exc) == Raised(exc)

\* except Exception as e (executor.py:65-71)
OnException(exc) == Returned(FALSE, <<>>, Some(ExcStr(exc)), WallClock)

\* except asyncio.TimeoutError (executor.py:58-64)
OnTimeout(timeout) == Returned(FALSE, <<>>, Some(TimedOutMsg(timeout)), Exactly(timeout))

\* result.get("error", "Unknown error")
GetError(doc) == IF "error" \in doc.keys THEN doc.error ELSE Some(<<T("Unknown error")>>)

\* the try body after the await (executor.py:41-56)
OnValue(doc) ==
  IF doc.type = "list" THEN OnException("list indices must be integers or slices, not str")
  ELSE IF doc.type = "str" THEN OnException("string indices must be integers, not 'str'")
  ELSE IF doc.type # "object" THEN OnException("'" \o doc.type \o "' object is not subscriptable")
  ELSE IF "status" \notin doc.keys THEN OnException("'status'")
  ELSE IF doc.status = "success"
       THEN IF "results" \notin doc.keys THEN OnException("'results'")
            ELSE LET all == AllPassedFrom(doc.results, 1)
                 IN  IF all = "KeyError" THEN OnException("'passed'")
                     ELSE Returned(all = "true", doc.results, None, WallClock)
       ELSE Returned(FALSE, <<>>, GetError(doc), WallClock)

\* execute_code's result for what run_in_docker_cli came to
ExecuteCodeResult(r, timeout) ==
  IF r.kind = "value" THEN OnValue(r.val)
  ELSE IF r.exc = "TimeoutError" THEN OnTimeout(timeout)
  ELSE OnException(r.exc)

(***************************************************************************)
(* What the isolated process can leave behind: exit code, stdout, stderr,  *)
(* and whether the bytes decode as UTF-8.  The code of a request is kept   *)
(* by the kind of program it is.                                           *)
(***************************************************************************)
Proc(rc, out, err, decodable) ==
  [rc |-> rc, out |-> out, err |-> err, decodable |-> decodable]

NoProc == Proc(0, <<>>, <<>>, TRUE)

\* the child of a container that was killed from outside
KilledProc == Proc(137, <<>>, <<>>, TRUE)

Codes == {"plain", "printing", "exiting", "hostile"}

\* code that defines functions and prints nothing: the runner's own document
PlainRuns(n) ==
  {Proc(0, RunnerStdout(RunTests(FALSE, o)), <<>>, TRUE) : o \in [1..n -> TestOutcomes]}
  \cup {Proc(0, RunnerStdout(RunTests(TRUE, <<>>)), <<>>, TRUE)}

\* code that prints while it is executed (stdout is not redirected during
\* exec(code)), text or bytes that are not UTF-8, after which it may end
\* the process with code 1
PrintingRuns(n) ==
  {Proc(0, <<T("loading"), WS>> \o RunnerStdout(RunTests(FALSE, [k \in 1..n |-> "pass"])),
        <<>>, TRUE),
   Proc(0, <<T("\\xff")>>, <<>>, FALSE),
   Proc(1, <<T("\\xff")>>, <<>>, FALSE)}

\* code that calls sys.exit: SystemExit is no Exception, main() prints nothing
ExitingRuns ==
  {Proc(0, <<>>, <<>>, TRUE), Proc(1, <<>>, <<>>, TRUE),
   Proc(1, <<>>, <<T("bye"), WS>>, TRUE), Proc(1, <<T("partial"), WS>>, <<>>, TRUE)}

Forged(type, keys, statusFirst, status, results, error) ==
  [type |-> type, keys |-> keys, statusFirst |-> statusFirst, status |-> status,
   results |-> results, error |-> error, warning |-> None]

EntryWithoutPassed == [test_number |-> 1, hasPassed |-> FALSE, passed |-> FALSE, errored |-> FALSE]

\* documents a program can write to file descriptor 1 itself before it ends
\* the process with os._exit, so that the runner never prints its own
ForgedDocs ==
  {Forged("list", {}, FALSE, "", <<>>, None),
   Forged("object", {"results"}, FALSE, "", <<>>, None),
   Forged("object", {"status"}, TRUE, "success", <<>>, None),
   Forged("object", {"status", "results"}, TRUE, "success", <<EntryWithoutPassed>>, None),
   Forged("object", {"status", "results"}, TRUE, "success",
          <<Entry(1, "fail"), EntryWithoutPassed>>, None),
   Forged("object", {"status", "error"}, TRUE, "error", <<>>, None),
   Forged("object", {"status"}, TRUE, "error", <<>>, None),
   Forged("object", {"status", "results"}, TRUE, "success", <<>>, None),
   Forged("object", {"status", "results"}, TRUE, "success", <<Entry(1, "pass")>>, None),
   Forged("object", {"status", "results"}, TRUE, "other", <<>>, None)}

\* the character ch, n times
RECURSIVE Repeat(_, _)
Repeat(ch, n) ==
  IF n = 0 THEN ""
  ELSE Repeat(ch, n \div 2) \o Repeat(ch, n \div 2) \o (IF n % 2 = 1 THEN ch ELSE "")

HostileRuns ==
  {Proc(0, <<J(d)>>, <<>>, TRUE) : d \in ForgedDocs}
  \cup {Proc(0, <<T(w)>>, <<>>, TRUE) : w \in {"5", "-1.5e3", "null", "true", "\"abc\"", "[1, 2]", "05"}}
  \cup {Proc(0, <<T(Repeat("x", INVALID_OUTPUT_PREFIX + 1))>>, <<>>, TRUE),
        Proc(0, <<T(Repeat("y", WARNING_PREFIX + 1)), WS,
                  J(Forged("object", {"status", "results"}, TRUE, "success",
                           <<Entry(1, "pass")>>, None))>>, <<>>, TRUE),
        Proc(0, <<Brace, T("\"status\": oops"), WS,
                  J(Forged("object", {"results"}, FALSE, "", <<>>, None))>>, <<>>, TRUE),
        Proc(0, <<T("["), J(Forged("object", {"status"}, TRUE, "success", <<>>, None)),
                  T("]")>>, <<>>, TRUE),
        Proc(0, <<T("\"a\fb\"")>>, <<>>, TRUE),
        Proc(0, <<T(Repeat("1", INT_MAX_STR_DIGITS + 1))>>, <<>>, TRUE),
        Proc(0, <<T(Repeat("[", NestLimit) \o Repeat("]", NestLimit))>>, <<>>, TRUE),
        Proc(0, <<T(Repeat("[", NestLimit - 1) \o Repeat("]", NestLimit - 1))>>,
             <<>>, TRUE),
        Proc(0, <<T(Repeat("[", NestLimit - 3)),
                  J(Forged("object", {"status", "results"}, TRUE, "success",
                           <<Entry(1, "pass")>>, None)),
                  T(Repeat("]", NestLimit - 3))>>, <<>>, TRUE),
        Proc(0, <<T("\""), J(Forged("list", {}, FALSE, "", <<>>, None)), T("\"")>>,
             <<>>, TRUE),
        Proc(0, <<T("\""), J(Forged("object", {"status", "results"}, TRUE, "success",
                                    <<>>, None)), T("\"")>>, <<>>, TRUE),
        Proc(0, <<T("x"), WS, J(Forged("object", {"error", "status"}, FALSE, "error",
                                       <<>>, Some(<<T("{x")>>)))>>, <<>>, TRUE)}
  \cup {Proc(0, <<Brace, T("x")>>, <<>>, TRUE),
        Proc(0, <<T("x"), WS, J(Forged("object", {"results", "status"}, FALSE, "success",
                                       <<>>, None))>>, <<>>, TRUE),
        Proc(0, <<T("x"), WS, J(Forged("object", {"results", "status"}, FALSE, "success",
                                       <<Entry(1, "pass")>>, None))>>, <<>>, TRUE),
        Proc(0, <<T("x"), WS, J(Forged("object", {"status", "error"}, TRUE, "error",
                                       <<>>, Some(<<T("boom")>>)))>>, <<>>, TRUE),
        Proc(1, <<T("partial"), WS>>, <<T("bye"), WS>>, TRUE),
        Proc(1, <<T("partial"), WS>>, <<WS>>, TRUE),
        Proc(1, RunnerStdout(RunTests(FALSE, <<"pass">>)), <<>>, TRUE)}

\* the runtime ends the container itself (out of memory, daemon error), or
\* the docker client is ended by signal 9 (returncode -9)
RuntimeFailures ==
  {KilledProc, Proc(125, <<>>, <<T("docker: Error response from daemon"), WS>>, TRUE),
   Proc(0 - 9, <<>>, <<>>, TRUE)}

Behaviours(code, n) ==
  RuntimeFailures \cup
  (CASE code = "plain" -> PlainRuns(n)
     [] code = "printing" -> PrintingRuns(n)
     [] code = "exiting" -> ExitingRuns
     [] OTHER -> HostileRuns)

(***************************************************************************)
(* Outcomes of one subprocess.run call of a probe.                         *)
(***************************************************************************)
ProbeOutcomes == {"rc0", "rc1", "timeout", "notfound", "oserror"}

ReturnCode(o) == IF o = "rc0" THEN 0 ELSE 1

NoRet == [kind |-> "none", val |-> NoDoc, exc |-> ""]

Goto(label, r) == [pc |-> label, ret |-> r]

SubprocessRaised_Retry(o) ==
  IF o = "timeout" THEN Goto("kill", NoRet) ELSE Goto("run", NoRet)

\* the except clauses of run_in_docker_cli (executor.py:153-160) for an
\* exception of subprocess.run in the try body
SubprocessRaised(o) ==
  IF o = "timeout" THEN Goto("kill", NoRet)
  ELSE IF o = "notfound" THEN Goto("return", Value(ErrDoc(CliNotFound)))
  ELSE Goto("return", Value(ErrDoc(ExcStr("[Errno 13] Permission denied: 'docker'"))))

\* executor.py:81-87
AfterHealthProbe(o) ==
  IF o \in {"rc0", "rc1"}
  THEN IF HealthFails(ReturnCode(o))
       THEN Goto("return", Value(ErrDoc(DockerNotRunning)))
       ELSE Goto("image", NoRet)
  ELSE SubprocessRaised(o)

\* executor.py:90-99
AfterImageProbe(o, image) ==
  IF o \in {"rc0", "rc1"}
  THEN IF ImageFails(ReturnCode(o))
       THEN Goto("return", Value(ErrDoc(ImageNotFound(image))))
       ELSE Goto("run", NoRet)
  ELSE SubprocessRaised(o)

(***************************************************************************)
(* State.                                                                  *)
(***************************************************************************)
VARIABLES
  calls,    \* the execute_code calls of the run, each in a server process of its own
  image,    \* SANDBOX_IMAGE (executor.py:13)
  memory,   \* SANDBOX_MEMORY (executor.py:15)
  pc,       \* pc[i]: where call i stands
  req,      \* req[i]: code, test_cases, timeout of call i
  seen,     \* seen[i]: how each subprocess.run of call i ended
  log,      \* log[i]: the subprocess.run calls of call i, in order
  cont,     \* cont[i]: the container of call i: "none", "running", "exited"
  proc,     \* proc[i]: what the child of call i left behind
  ret,      \* ret[i]: what run_in_docker_cli returned or raised
  result    \* result[i]: what execute_code returned or raised

\* the Host Executor's variables
hvars == <<calls, image, memory, pc, req, seen, log, cont, proc, ret, result>>

\* One run of the Sandbox Runner (runner.py) looked at step by step.
VARIABLES
  rstdin,    \* what the runner reads from standard input
  rpc,       \* where the runner stands
  rprinted,  \* whether exec(code) wrote text to standard output
  rk,        \* the number of test cases run_tests has gone through
  rns,       \* the namespace: the value bound to the name counter
  rround,    \* how float64 rounding falls in np.allclose for a pair whose
             \* two sides are equal in exact arithmetic: TRUE is close
  rresults,  \* results of run_tests
  rdoc,      \* the value main() is about to print
  rstdout,   \* what the runner process has written to standard output
  rexit      \* its exit code, once it has exited

rvars == <<rstdin, rpc, rprinted, rk, rns, rround, rresults, rdoc, rstdout, rexit>>

vars == <<calls, image, memory, pc, req, seen, log, cont, proc, ret, result,
          rstdin, rpc, rprinted, rk, rns, rround, rresults, rdoc, rstdout, rexit>>

\* no runner process is looked at
NoStdin == [shape |-> "none"]
RunnerOff ==
  /\ rstdin = NoStdin
  /\ rpc = "off"
  /\ rprinted = FALSE
  /\ rk = 0
  /\ rns = 0
  /\ rround = FALSE
  /\ rresults = <<>>
  /\ rdoc = NoDoc
  /\ rstdout = <<>>
  /\ rexit = -1

CallIds == 1..MaxCalls

\* execute_code(code, test_cases, timeout: int = 30) (executor.py:18)
DEFAULT_TIMEOUT == 30

Images == {"deepml-sandbox:latest", "registry.local/sandbox:2"}
Memories == {"512m", "1g"}

Request(code, ntests, timeout) == [code |-> code, ntests |-> ntests, timeout |-> timeout]
NoRequest == Request("", 0, 0)

\* The requests a call may carry.  With several calls in flight every call
\* carries the same small request, which keeps the product of their states
\* small; a single call ranges over every kind of code and size.
Requests(active) ==
  IF Cardinality(active) = 1
  THEN {Request(c, n, t) : c \in Codes, n \in 0..MaxTests,
                           t \in (1..MaxTimeout) \cup {DEFAULT_TIMEOUT}}
  ELSE {Request("plain", 1, 1)}

NothingSeen == [health |-> "none", image |-> "none", run |-> "none", kill |-> "none"]

NoResult ==
  [raised |-> FALSE, exc |-> "", fields |-> {}, success |-> FALSE,
   results |-> <<>>, error |-> None, execution_time |-> WallClock]

InitCalls(active) ==
  /\ calls = active
  /\ image \in Images
  /\ memory \in Memories
  /\ pc = [i \in CallIds |-> "idle"]
  /\ req = [i \in CallIds |-> NoRequest]
  /\ seen = [i \in CallIds |-> NothingSeen]
  /\ log = [i \in CallIds |-> <<>>]
  /\ cont = [i \in CallIds |-> "none"]
  /\ proc = [i \in CallIds |-> NoProc]
  /\ ret = [i \in CallIds |-> NoRet]
  /\ result = [i \in CallIds |-> NoResult]

\* one call
Init == InitCalls({1}) /\ RunnerOff

\* MaxCalls calls in flight at once, in different server processes, with the
\* default configuration
InitConc ==
  /\ InitCalls(CallIds)
  /\ image = "deepml-sandbox:latest"
  /\ memory = "512m"
  /\ RunnerOff

(***************************************************************************)
(* Steps of one call.                                                      *)
(***************************************************************************)
\* execute_code is called (executor.py:30-40)
Start(i) ==
  /\ i \in calls
  /\ pc[i] = "idle"
  /\ \E r \in Requests(calls) : req' = [req EXCEPT ![i] = r]
  /\ pc' = [pc EXCEPT ![i] = "health"]
  /\ UNCHANGED <<calls, image, memory, seen, log, cont, proc, ret, result>>
  /\ UNCHANGED rvars

\* subprocess.run(["docker", "info"], timeout=5) and the check of its exit
\* code (executor.py:81-87)
HealthProbe(i) ==
  /\ pc[i] = "health"
  /\ \E o \in ProbeOutcomes :
       /\ seen' = [seen EXCEPT ![i].health = o]
       /\ pc' = [pc EXCEPT ![i] = AfterHealthProbe(o).pc]
       /\ ret' = [ret EXCEPT ![i] = AfterHealthProbe(o).ret]
  /\ log' = [log EXCEPT ![i] =
               Append(@, Invocation(HealthCmd, NoPayload, FALSE, TRUE, PROBE_TIMEOUT))]
  /\ UNCHANGED <<calls, image, memory, req, cont, proc, result>>
  /\ UNCHANGED rvars

\* subprocess.run(["docker", "image", "inspect", SANDBOX_IMAGE], timeout=5)
\* and the check of its exit code (executor.py:90-99)
ImageProbe(i) ==
  /\ pc[i] = "image"
  /\ \E o \in ProbeOutcomes :
       /\ seen' = [seen EXCEPT ![i].image = o]
       /\ pc' = [pc EXCEPT ![i] = AfterImageProbe(o, image).pc]
       /\ ret' = [ret EXCEPT ![i] = AfterImageProbe(o, image).ret]
  /\ log' = [log EXCEPT ![i] =
               Append(@, Invocation(ImageCmd(image), NoPayload, FALSE, TRUE, PROBE_TIMEOUT))]
  /\ UNCHANGED <<calls, image, memory, req, cont, proc, result>>
  /\ UNCHANGED rvars

\* subprocess.run(cmd, input=payload, timeout=timeout) starts docker run
\* (executor.py:103-121); the docker command may also fail to start
StartRun(i) ==
  /\ pc[i] = "run"
  /\ log' = [log EXCEPT ![i] =
               Append(@, Invocation(RunCmd(image, memory),
                                    Payload(req[i].code, req[i].ntests),
                                    FALSE, TRUE, req[i].timeout))]
  /\ \E o \in {"spawned", "notfound", "oserror"} :
       /\ seen' = [seen EXCEPT ![i].run = o]
       /\ IF o = "spawned"
          THEN /\ cont' = [cont EXCEPT ![i] = "running"]
               /\ pc' = [pc EXCEPT ![i] = "wait"]
               /\ ret' = ret
          ELSE /\ cont' = cont
               /\ pc' = [pc EXCEPT ![i] = SubprocessRaised(o).pc]
               /\ ret' = [ret EXCEPT ![i] = SubprocessRaised(o).ret]
  /\ UNCHANGED <<calls, image, memory, req, proc, result>>
  /\ UNCHANGED rvars

\* the isolated process of call i ends by itself (the runner finished, the
\* program ended the process, or the runtime ended it); what it wrote is
\* read only while docker run is still waited for
ChildExits(i) ==
  /\ cont[i] = "running"
  /\ cont' = [cont EXCEPT ![i] = "exited"]
  /\ IF pc[i] = "wait"
     THEN \E b \in Behaviours(req[i].code, req[i].ntests) : proc' = [proc EXCEPT ![i] = b]
     ELSE proc' = proc
  /\ UNCHANGED <<calls, image, memory, pc, req, seen, log, ret, result>>
  /\ UNCHANGED rvars

\* docker run returned within the timeout; its output is decoded
\* (executor.py:123-151)
RunCompletes(i) ==
  /\ pc[i] = "wait"
  /\ cont[i] = "exited"
  /\ seen' = [seen EXCEPT ![i].run = "exited"]
  /\ ret' = [ret EXCEPT ![i] =
               Value(Completed(proc[i].rc, proc[i].out, proc[i].err, proc[i].decodable))]
  /\ pc' = [pc EXCEPT ![i] = "return"]
  /\ UNCHANGED <<calls, image, memory, req, log, cont, proc, result>>
  /\ UNCHANGED rvars

\* docker run did not return within timeout seconds: subprocess.run kills
\* the docker client process and raises TimeoutExpired; the container is the
\* daemon's and stays as it is
RunTimesOut(i) ==
  /\ pc[i] = "wait"
  /\ cont[i] = "running"
  /\ seen' = [seen EXCEPT ![i].run = "timeout"]
  /\ pc' = [pc EXCEPT ![i] = "kill"]
  /\ UNCHANGED <<calls, image, memory, req, log, cont, proc, ret, result>>
  /\ UNCHANGED rvars

Running == {j \in CallIds : cont[j] = "running"}

\* except subprocess.TimeoutExpired: subprocess.run(["docker", "kill",
\* "$(docker ps -q)"], shell=True, capture_output=True) is started
\* (executor.py:153-155).  The daemon is shared by the server processes of
\* the host, so a container the command kills may be another call's.  An
\* OSError of this subprocess.run is raised inside the handler and leaves
\* run_in_docker_cli.
KillStep(i) ==
  /\ pc[i] = "kill"
  /\ log' = [log EXCEPT ![i] = Append(@, Invocation(KillCmd, NoPayload, TRUE, FALSE, 0))]
  /\ \E o \in {"spawned", "oserror"} :
       /\ seen' = [seen EXCEPT ![i].kill = o]
       /\ IF o = "spawned"
          THEN /\ cont' = [j \in CallIds |->
                             IF j \in KillTargets(Running) THEN "exited" ELSE cont[j]]
               /\ proc' = [j \in CallIds |->
                             IF j \in KillTargets(Running) /\ pc[j] = "wait"
                             THEN KilledProc ELSE proc[j]]
               /\ pc' = [pc EXCEPT ![i] = "killwait"]
               /\ ret' = ret
          ELSE /\ cont' = cont
               /\ proc' = proc
               /\ pc' = [pc EXCEPT ![i] = "return"]
               /\ ret' = [ret EXCEPT ![i] = Raise("[Errno 12] Cannot allocate memory")]
  /\ UNCHANGED <<calls, image, memory, req, result>>
  /\ UNCHANGED rvars

\* the kill command exits; subprocess.run was given no timeout and returns
\* only now; raise asyncio.TimeoutError() (executor.py:155-156)
KillReturns(i) ==
  /\ pc[i] = "killwait"
  /\ seen' = [seen EXCEPT ![i].kill = "exited"]
  /\ ret' = [ret EXCEPT ![i] = Raise("TimeoutError")]
  /\ pc' = [pc EXCEPT ![i] = "return"]
  /\ UNCHANGED <<calls, image, memory, req, log, cont, proc, result>>
  /\ UNCHANGED rvars

\* execute_code maps what run_in_docker_cli came to and returns
\* (executor.py:41-71)
Return(i) ==
  /\ pc[i] = "return"
  /\ result' = [result EXCEPT ![i] = ExecuteCodeResult(ret[i], req[i].timeout)]
  /\ pc' = [pc EXCEPT ![i] = "done"]
  /\ UNCHANGED <<calls, image, memory, req, seen, log, cont, proc, ret>>
  /\ UNCHANGED rvars

\* the steps the server process of call i takes itself; every one of them
\* is a bounded wait or a computation
HostStep(i) ==
  \/ Start(i)
  \/ HealthProbe(i)
  \/ ImageProbe(i)
  \/ StartRun(i)
  \/ RunCompletes(i)
  \/ RunTimesOut(i)
  \/ KillStep(i)
  \/ Return(i)

Next ==
  \E i \in CallIds :
    \/ Start(i)
    \/ HealthProbe(i)
    \/ ImageProbe(i)
    \/ StartRun(i)
    \/ ChildExits(i)
    \/ RunCompletes(i)
    \/ RunTimesOut(i)
    \/ KillStep(i)
    \/ KillReturns(i)
    \/ Return(i)

\* one execute_code call, over every request and every behaviour of the
\* runtime and of the child
Spec == Init /\ [][Next]_vars

\* MaxCalls calls at once
ConcSpec == InitConc /\ [][Next]_vars

\* One call whose own steps are taken whenever they can be: subprocess.run
\* with timeout= returns or raises within its bound, and the code between
\* the calls does not wait.  Nothing is assumed of the child process
\* (ChildExits) nor of the kill command (KillReturns), which the code waits
\* for without a bound.
FairSpec == Init /\ [][Next]_vars /\ \A i \in CallIds : WF_vars(HostStep(i))

(***************************************************************************)
(* Properties of the Host Executor.                                        *)
(***************************************************************************)
Done(i) == pc[i] = "done"

EntryPassed(e) == e.hasPassed /\ e.passed

\* a decoded document execute_code cannot read: not an object, or without
\* "status", or a success document without "results" or with an entry
\* without "passed"
MalformedDoc(d) ==
  \/ d.type # "object"
  \/ "status" \notin d.keys
  \/ /\ d.status = "success"
     /\ \/ "results" \notin d.keys
        \/ \E k \in 1..Len(d.results) : ~d.results[k].hasPassed

\* call i went through one of the failures of the runtime or of the child
FailurePath(i) ==
  \/ seen[i].health # "rc0"
  \/ seen[i].image # "rc0"
  \/ seen[i].run # "exited"
  \/ proc[i].rc # 0
  \/ ~proc[i].decodable
  \/ ret[i].kind = "raise"
  \/ ret[i].val = ErrDoc(InvalidOutput(Strip(proc[i].out)))
  \/ MalformedDoc(ret[i].val)

\* C1: execute_code never raises to its caller: whatever the probes and the
\* child process did, a finished call has returned a result with the fields
\* success, results, error, execution_time, and success is false whenever
\* the call went through a failure.
C1_NeverRaises ==
  \A i \in calls :
    Done(i) =>
      /\ ~result[i].raised
      /\ result[i].fields = {"success", "results", "error", "execution_time"}
      /\ FailurePath(i) => ~result[i].success

\* a call has returned although the decoded document could not be read
C1_Witness ==
  \E i \in calls :
    /\ Done(i)
    /\ ret[i].kind = "value"
    /\ proc[i].rc = 0
    /\ MalformedDoc(ret[i].val)
    /\ ~result[i].raised
    /\ ~result[i].success

\* C2: in every returned result, success = (error is None and every entry of
\* results has passed = true).
C2_SuccessDerivable ==
  \A i \in calls :
    (Done(i) /\ ~result[i].raised) =>
      (result[i].success <=>
         (/\ result[i].error = None
          /\ \A k \in 1..Len(result[i].results) : EntryPassed(result[i].results[k])))

\* C3: in every returned result, results has one entry per test case of the
\* request, or results is empty and error is set.
C3_ResultsComplete ==
  \A i \in calls :
    (Done(i) /\ ~result[i].raised) =>
      \/ Len(result[i].results) = req[i].ntests
      \/ (result[i].results = <<>> /\ result[i].error # None)

\* the result execute_code gives for a timeout
TimedOutResult(timeout) ==
  Returned(FALSE, <<>>, Some(TimedOutMsg(timeout)), Exactly(timeout))

\* C4: when docker run does not finish within timeout seconds the call
\* returns success = false, results = [], error = "Execution timed out after
\* <timeout> seconds" and execution_time = timeout; and that result is
\* returned only when docker run itself exceeded the timeout.
C4_TimedOutIffRunExpired ==
  \A i \in calls :
    Done(i) =>
      /\ seen[i].run = "timeout" =>
           /\ result[i] = TimedOutResult(req[i].timeout)
           /\ Contains(result[i].error.s, DecDigits(req[i].timeout))
      /\ result[i] = TimedOutResult(req[i].timeout) => seen[i].run = "timeout"

IsRun(inv) == Len(inv.argv) >= 2 /\ inv.argv[1] = "docker" /\ inv.argv[2] = "run"

\* C5: the health probe is the first command of a call, the image probe is
\* given only after the health probe succeeded, docker run only after both
\* succeeded; when a probe did not succeed no container exists and no docker
\* run was given.
C5_ProbesBeforeRun ==
  \A i \in calls :
    /\ Len(log[i]) >= 1 => log[i][1].argv = HealthCmd
    /\ \A k \in 1..Len(log[i]) :
         /\ log[i][k].argv = ImageCmd(image) => (k = 2 /\ seen[i].health = "rc0")
         /\ IsRun(log[i][k]) =>
              /\ k = 3
              /\ log[i][1].argv = HealthCmd /\ seen[i].health = "rc0"
              /\ log[i][2].argv = ImageCmd(image) /\ seen[i].image = "rc0"
    /\ cont[i] # "none" => (Len(log[i]) >= 3 /\ IsRun(log[i][3]))
    /\ (seen[i].health \notin {"none", "rc0"} \/ seen[i].image \notin {"none", "rc0"}) =>
         /\ cont[i] = "none"
         /\ \A k \in 1..Len(log[i]) : ~IsRun(log[i][k])

\* docker run was given as the third command and its container runs
C5_Witness ==
  \E i \in calls : cont[i] = "running" /\ Len(log[i]) = 3 /\ IsRun(log[i][3])

\* C6: when the health probe exits non-zero or does not complete within its
\* bound, the call returns success = false, results = [], error = "Docker is
\* not running", and gives the runtime no other command.
C6_UnreachableRuntime ==
  \A i \in calls :
    (Done(i) /\ seen[i].health \in {"rc1", "timeout"}) =>
      /\ ~result[i].raised
      /\ ~result[i].success
      /\ result[i].results = <<>>
      /\ result[i].error = Some(DockerNotRunning)
      /\ Len(log[i]) = 1

\* the image probe of call i was given and did not succeed: it exited
\* non-zero, exceeded its bound, or could not be started
ImageProbeFailed(i) == seen[i].health = "rc0" /\ seen[i].image \notin {"none", "rc0"}

\* C7: whenever the health probe succeeds and the image probe fails, the
\* call returns success = false, results = [] and an error that contains the
\* configured image name and the build command for that image.
C7_MissingImage ==
  \A i \in calls :
    (Done(i) /\ ImageProbeFailed(i)) =>
      /\ ~result[i].raised
      /\ ~result[i].success
      /\ result[i].results = <<>>
      /\ result[i].error.some
      /\ Contains(result[i].error.s, <<T(image)>>)
      /\ Contains(result[i].error.s, BuildCommand(image))

\* flag f stands among the options of docker run, before the image name
HasFlag(argv, f, img) ==
  \E j \in 3..Len(argv) : argv[j] = f /\ \A m \in 3..j : argv[m] # img

\* option f with value v stands among the options of docker run
HasOption(argv, f, v, img) ==
  \E j \in 3..(Len(argv) - 1) :
    argv[j] = f /\ argv[j + 1] = v /\ \A m \in 3..(j + 1) : argv[m] # img

\* C8: every docker run of every request carries remove-after-exit, no
\* network, the configured memory limit, one CPU, the user nobody and a
\* size-bounded tmpfs at /tmp, is given without a shell, and the request
\* reaches it through standard input only.
C8_IsolationFlags ==
  \A i \in calls :
    \A k \in 1..Len(log[i]) :
      IsRun(log[i][k]) =>
        /\ HasFlag(log[i][k].argv, "--rm", image)
        /\ HasOption(log[i][k].argv, "--network", "none", image)
        /\ HasOption(log[i][k].argv, "--memory", memory, image)
        /\ HasOption(log[i][k].argv, "--cpus", "1", image)
        /\ HasOption(log[i][k].argv, "--user", "nobody", image)
        /\ HasOption(log[i][k].argv, "--tmpfs", "/tmp:size=64m", image)
        /\ ~log[i][k].shell
        /\ log[i][k].stdin = Payload(req[i].code, req[i].ntests)
        /\ \A j \in 1..Len(log[i][k].argv) : log[i][k].argv[j] # req[i].code

\* docker run was given for a request whose code writes its own output, with
\* a memory limit other than the default
C8_Witness ==
  \E i \in calls :
    /\ req[i].code = "hostile"
    /\ req[i].ntests = MaxTests
    /\ memory = "1g"
    /\ \E k \in 1..Len(log[i]) : IsRun(log[i][k])

\* C9: no step of one call, the handling of its timeout included, changes
\* the container of another call or what that container's process leaves
\* behind.
C9_CallsIndependent ==
  [][\A i, j \in CallIds :
       (i # j /\ pc'[i] # pc[i]) => (cont'[j] = cont[j] /\ proc'[j] = proc[j])]_vars

\* one call has given its kill command while the container of another call,
\* still waited for, keeps running
C9_Witness ==
  \E i, j \in calls :
    /\ i # j
    /\ pc[i] = "killwait"
    /\ seen[i].run = "timeout"
    /\ pc[j] = "wait"
    /\ cont[j] = "running"

\* C10: once docker run has timed out, the call eventually returns; it does
\* not wait without bound for the kill command.
C10_ReturnsAfterTimeout ==
  \A i \in CallIds : (pc[i] = "kill" /\ seen[i].run = "timeout") ~> Done(i)

(***************************************************************************)
(* Sandbox Runner in detail (runner.py): values, texts and the comparison  *)
(* of actual and expected.                                                 *)
(*                                                                         *)
(* A number is an integer count of units of 1e-8, the absolute tolerance   *)
(* of np.allclose.  An array is a sequence of rows; a scalar is the array  *)
(* <<<<x>>>>.  The text of a number or of an array is one token that keeps  *)
(* the value next to the way it is written.                                *)
(***************************************************************************)
\* 1.0 in units of atol = 1e-8 (np.allclose, runner.py:92)
ONE == 100000000
\* atol = 1e-8 of np.allclose, in units
ATOL == 1
\* 1 / rtol, rtol = 1e-5 of np.allclose
RTOL_INV == 100000
\* a number written as text: form "int" ("2"), "float" ("2.0", Python's str)
NumText(form, x) == [t |-> "num", s |-> form, d |-> NoDoc, v |-> <<<<x>>>>]

\* an array written as text: style "list" ("[[2.0], [3.0]]", the way Python
\* writes a list and source code writes it), "npstr" ("[[2.]\n [3.]]", the
\* str() of a numpy array, rows on lines of their own, elements of a row
\* separated by blanks), "npflat" (the same with every run of whitespace
\* turned into one blank)
ArrText(style, rows) == [t |-> "arr", s |-> style, d |-> NoDoc, v |-> rows]

\* the text begins with "np."; such a text has "np." as its first token
NpPrefix == T("np.")

\* expected_str.startswith("np.")
StartsWithNp(str) == str # <<>> /\ str[1] = NpPrefix

\* np.array( <literal> ) as the text of an expected value
NpArrayExpr(lit) == <<NpPrefix, T("array("), lit, T(")")>>

Failed == [ok |-> FALSE, val |-> <<>>]
Evaluated(rows) == [ok |-> TRUE, val |-> rows]
\* expected_val with the text str(expected_val)
Expected(rows, shown) == [ok |-> TRUE, val |-> rows, shown |-> shown]

\* str(expected_val): numpy's text of the array
NpStr(rows) == <<ArrText("npstr", rows)>>

\* eval(expected_str, namespace) for a text that starts with "np."
\* (runner.py:84), for the expected texts of the model: np.array(<list>) is
\* the array, np.array(<number>) an array of no dimension, whose text is the
\* number's; blanks between the tokens and newlines inside the parentheses
\* are skipped; np.bogus raises AttributeError, "np.foo bar" SyntaxError
EvalExpected(str) ==
  LET e == SelectSeq(str, LAMBDA tok : tok # [t |-> "ws", s |-> " ", d |-> NoDoc])
      n == Len(e)
      args == SelectSeq(SubSeq(e, 3, n - 1), LAMBDA tok : tok.t # "ws")
      call == n >= 4 /\ e[2] = T("array(") /\ e[n] = T(")") /\ Len(args) = 1
  IN  CASE call /\ args[1].t = "arr" /\ args[1].s = "list" ->
             Expected(args[1].v, NpStr(args[1].v))
        [] call /\ args[1].t = "num" ->
             Expected(args[1].v, <<args[1]>>)
        [] e = <<NpPrefix, T("bogus")>> -> Failed
        [] e = <<NpPrefix, T("foo"), T("bar")>> -> Failed

\* actual.replace("\n", ","): the lines of a numpy text become items; an
\* array of one row is written on one line
ReplaceNewlines(tok) ==
  IF tok.t = "arr" /\ tok.s = "npstr" /\ Len(tok.v) > 1
  THEN [tok EXCEPT !.s = "nprows"] ELSE tok

\* eval("np.array(" + actual.replace("\n", ",") + ")", {"np": np})
\* (runner.py:90): a number or a list literal is an expression; the lines of
\* a numpy text, joined by commas, are one only when no row holds two
\* elements side by side (they are separated by blanks, not by commas)
ParseActual(actual) ==
  LET content == {k \in 1..Len(actual) : actual[k].t # "ws"}
      p == CHOOSE k \in content : TRUE
      commas == {k \in 1..Len(actual) : actual[k].t = "ws" /\ actual[k].s = "\n"}
  IN  IF Cardinality(content) # 1 THEN Failed
      \* a newline before the text is a leading comma, two after it are two
      \* commas in a row: SyntaxError
      ELSE IF (\E k \in commas : k < p) \/ Cardinality(commas) > 1 THEN Failed
      ELSE
       LET tok == ReplaceNewlines(actual[p])
       IN  IF tok.t = "num" THEN Evaluated(tok.v)
           ELSE IF tok.t = "arr" /\ tok.s = "list" THEN Evaluated(tok.v)
           ELSE IF tok.t = "arr" /\ tok.s \in {"nprows", "npstr"}
                   /\ \A r \in 1..Len(tok.v) : Len(tok.v[r]) = 1
                THEN Evaluated(tok.v)
           ELSE Failed

Abs(x) == IF x < 0 THEN -x ELSE x

\* |a - b| against atol + rtol * |b| in exact arithmetic: -1 below, 0 equal,
\* 1 above.  With x = |a - b| - atol, q and r the quotient and the remainder
\* of |b| by 1 / rtol: x < |b| * rtol iff x < q or (x = q and r > 0).
Excess(a, b) ==
  LET x == Abs(a - b) - ATOL
      q == Abs(b) \div RTOL_INV
      r == Abs(b) % RTOL_INV
  IN  IF x < q \/ (x = q /\ r > 0) THEN 0 - 1
      ELSE IF x = q /\ r = 0 THEN 0
      ELSE 1

Close_Exact(a, b) == IF a = b THEN "true" ELSE "false"

\* np.isclose of one pair, abs(a - b) <= atol + rtol * abs(b) in float64:
\* "true", "false", or "rounding" when the two sides are equal in exact
\* arithmetic and the rounding of the float64 operations decides
Close(a, b) ==
  IF Excess(a, b) < 0 THEN "true"
  ELSE IF Excess(a, b) > 0 THEN "false"
  ELSE "rounding"

Rows(a) == Len(a)
Cols(a) == Len(a[1])

\* the two shapes broadcast: each dimension is equal or one of them is 1
Broadcast(a, b) ==
  /\ (Rows(a) = Rows(b) \/ Rows(a) = 1 \/ Rows(b) = 1)
  /\ (Cols(a) = Cols(b) \/ Cols(a) = 1 \/ Cols(b) = 1)

At(a, r, c) == a[IF Rows(a) = 1 THEN 1 ELSE r][IF Cols(a) = 1 THEN 1 ELSE c]

Max(a, b) == IF a > b THEN a ELSE b

\* np.allclose(actual_val, expected_val): "raise" when the shapes do not
\* broadcast, else whether every pair of elements is close; a pair that the
\* rounding decides is close when rround says so
AllClose(a, b) ==
  IF ~Broadcast(a, b) THEN "raise"
  ELSE IF \A r \in 1..Max(Rows(a), Rows(b)) :
            \A c \in 1..Max(Cols(a), Cols(b)) :
              \/ Close(At(a, r, c), At(b, r, c)) = "true"
              \/ Close(At(a, r, c), At(b, r, c)) = "rounding" /\ rround
       THEN "true" ELSE "false"

\* every run of whitespace becomes one blank
RECURSIVE Squash(_)
Squash(str) ==
  IF str = <<>> THEN <<>>
  ELSE IF Head(str).t = "ws"
       THEN IF Tail(str) # <<>> /\ Head(Tail(str)).t = "ws"
            THEN Squash(Tail(str))
            ELSE <<[t |-> "ws", s |-> " ", d |-> NoDoc]>> \o Squash(Tail(str))
       ELSE IF Head(str).t = "arr" /\ Head(str).s = "npstr" /\ Len(Head(str).v) > 1
            THEN <<[Head(str) EXCEPT !.s = "npflat"]>> \o Squash(Tail(str))
            ELSE <<Head(str)>> \o Squash(Tail(str))

\* ' '.join(s.split()): whitespace at the ends goes, every run inside
\* becomes one blank
Collapse(str) == Squash(Strip(str))

\* actual_normalized, expected_normalized (runner.py:96-97)
Normalize(str) == Collapse(str)

(***************************************************************************)
(* What the submitted code and the test expressions do.  The code defines  *)
(* the functions below; an expression is named by its source text.         *)
(***************************************************************************)
Five == NumText("int", 5 * ONE)
Column == <<<<2 * ONE>>, <<3 * ONE>>>>
Row == <<<<2 * ONE, 3 * ONE>>>>
\* [2.0000001, 3.0]: within the tolerance of [2.0, 3.0]
RowNear == <<<<2 * ONE + 10, 3 * ONE>>>>
\* [2.00005, 3.0]: outside it
RowOff == <<<<2 * ONE + 5000, 3 * ONE>>>>
\* [2.00002001, 3.0]: |2.00002001 - 2.0| = 1e-8 + 1e-5 * 2.0 in exact
\* arithmetic
RowEdge == <<<<2 * ONE + 2001, 3 * ONE>>>>

\* out and err are what the evaluation wrote to standard output and to
\* standard error
Val(printed, str) ==
  [kind |-> "value", out |-> printed, err |-> <<>>, val |-> str, msg |-> <<>>]
Warned(errtext, str) ==
  [kind |-> "value", out |-> <<>>, err |-> errtext, val |-> str, msg |-> <<>>]
Exc(type, msg) ==
  [kind |-> "raise", out |-> <<>>, err |-> <<>>, val |-> None,
   msg |-> <<T(type), T(": "), T(msg)>>]
Exits == [kind |-> "exit", out |-> <<>>, err |-> <<>>, val |-> None, msg |-> <<>>]

\* one blank
Blank == [t |-> "ws", s |-> " ", d |-> NoDoc]

\* a test expression that is a JSON number, not a string
NotAString == "5 (number)"
\* a test expression that is the JSON object {"status": 1}
StatusObject == "{\"status\": 1} (object)"

Exprs ==
  {"add(2, 3)", "pad()", "show()", "nothing()", "blank()", "boom()", "exit()",
   "col()", "row()", "near()", "off()", "edge()", "flat()", NotAString,
   "zero()", "", "spaced()", "warn()", "warnonly()", "bump()", "bump_boom()", "peek()",
   StatusObject}

\* eval(test_code, namespace) under redirect_stdout (runner.py:64-65): what
\* was printed, and str(result) or None for a result of None, for the
\* expressions of Exprs that leave the namespace as it is
Eval(expr) ==
  CASE expr = "add(2, 3)" -> Val(<<>>, Some(<<Five>>))
    [] expr = "pad()"     -> Val(<<>>, Some(<<WS, Five, WS>>))
    [] expr = "show()"    -> Val(<<Five, WS>>, None)
    [] expr = "nothing()" -> Val(<<>>, None)
    [] expr = "blank()"   -> Val(<<WS>>, None)
    [] expr = "boom()"    -> Exc("ValueError", "boom")
    [] expr = "exit()"    -> Exits
    [] expr = "col()"     -> Val(<<>>, Some(<<ArrText("npstr", Column)>>))
    [] expr = "row()"     -> Val(<<>>, Some(<<ArrText("npstr", Row)>>))
    [] expr = "near()"    -> Val(<<>>, Some(<<ArrText("list", RowNear)>>))
    [] expr = "off()"     -> Val(<<>>, Some(<<ArrText("list", RowOff)>>))
    [] expr = "edge()"    -> Val(<<>>, Some(<<ArrText("list", RowEdge)>>))
    [] expr = "flat()"    -> Val(<<ArrText("npflat", Column), WS>>, None)
    [] expr \in {NotAString, StatusObject} ->
         Exc("TypeError", "eval() arg 1 must be a string, bytes or code object")
    [] expr = "zero()"    -> Val(<<>>, Some(<<NumText("int", 0)>>))
    [] expr = ""          -> Exc("SyntaxError", "invalid syntax (<string>, line 0)")
    [] expr = "spaced()"  -> Val(<<>>, Some(<<T("np."), T("foo"), Blank, Blank, T("bar")>>))
    [] expr = "warn()"    -> Warned(<<T("careful"), WS>>, Some(<<NumText("int", 5 * ONE)>>))
    [] expr = "warnonly()" -> Warned(<<T("careful"), WS>>, None)

\* runner.py:68-74
Actual(ev) ==
  IF Strip(ev.out) # <<>> THEN Strip(ev.out)
  ELSE IF ev.val.some THEN ev.val.s ELSE <<T("None")>>

Verdict(passed, shown) == [passed |-> passed, expected |-> shown]

\* the plain comparison (runner.py:104, 107)
PlainMatch_Unstripped(actual, expected_str) == actual = expected_str

PlainMatch(actual, expected_str) == Strip(actual) = expected_str

Compare_PlainFallback(actual, expected_str) ==
  IF StartsWithNp(expected_str)
  THEN LET ev == EvalExpected(expected_str)
           pa == ParseActual(actual)
           shown == Strip(ev.shown)
       IN  IF ~ev.ok THEN Verdict(PlainMatch(actual, expected_str), expected_str)
           ELSE IF pa.ok /\ AllClose(pa.val, ev.val) # "raise"
                THEN Verdict(AllClose(pa.val, ev.val) = "true", shown)
                ELSE Verdict(PlainMatch(actual, shown), shown)
  ELSE Verdict(PlainMatch(actual, expected_str), expected_str)

\* passed and the expected text shown, from actual and expected_str
\* (runner.py:78-107)
Compare(actual, expected_str) ==
  IF StartsWithNp(expected_str)
  THEN LET ev == EvalExpected(expected_str)
           pa == ParseActual(actual)
           shown == Strip(ev.shown)
       IN  IF ~ev.ok THEN Verdict(PlainMatch(actual, expected_str), expected_str)
           ELSE IF pa.ok /\ AllClose(pa.val, ev.val) # "raise"
                THEN Verdict(AllClose(pa.val, ev.val) = "true", shown)
                ELSE Verdict(Normalize(actual) = Normalize(shown), shown)
  ELSE Verdict(PlainMatch(actual, expected_str), expected_str)

TestResult_ZeroBased(k, passed, input, expected, actual, error) ==
  [test_number |-> k - 1, hasPassed |-> TRUE, passed |-> passed, errored |-> error.some,
   input |-> input, expected |-> expected, actual |-> actual, error |-> error]

\* one entry of results as the runner builds it (runner.py:109-126)
TestResult(k, passed, input, expected, actual, error) ==
  [test_number |-> k, hasPassed |-> TRUE, passed |-> passed, errored |-> error.some,
   input |-> input, expected |-> expected, actual |-> actual, error |-> error]

\* The submitted code binds counter = 0; bump() adds one to it and returns
\* it, bump_boom() adds one and raises, peek() returns it.
\* eval(test_code, namespace) in the namespace as the tests before left it
EvalIn(ns, expr) ==
  CASE expr = "bump()"      -> Val(<<>>, Some(<<NumText("int", (ns + 1) * ONE)>>))
    [] expr = "peek()"      -> Val(<<>>, Some(<<NumText("int", ns * ONE)>>))
    [] expr = "bump_boom()" -> Exc("ValueError", "boom")
    [] OTHER                -> Eval(expr)

Effect_Isolated(ns, expr) == ns

\* the namespace after eval(test_code, namespace): the dict is the same
\* object for every test case, whether the expression returned or raised
Effect(ns, expr) == IF expr \in {"bump()", "bump_boom()"} THEN ns + 1 ELSE ns

\* A test case of the payload, an object with one of the two key pairs:
\* pair "test" is {"test": test, "expected_output": expected}, pair "input"
\* is {"input": test, "expected": expected}.  test is a JSON string (or
\* NotAString), expected a JSON string, or the JSON number of that text when
\* xnum holds.
Keyed(pair, test, expected, xnum) ==
  [obj |-> TRUE, pair |-> pair, test |-> test, expected |-> expected, xnum |-> xnum]
TestCase(test, expected) == Keyed("test", test, expected, FALSE)
Alternate(test, expected) == Keyed("input", test, expected, FALSE)
\* an item of test_cases that is no object, such as 5
NonObjectItem == [obj |-> FALSE, pair |-> "", test |-> "", expected |-> <<>>, xnum |-> FALSE]

Zero == NumText("int", 0)

\* bool(value) is False: the empty string, the number 0
FalsyTest(tc) == tc.test = ""
FalsyExpected(tc) == tc.expected = <<>> \/ (tc.xnum /\ tc.expected = <<Zero>>)

\* test_code = tc.get("test") or tc.get("input", "") (runner.py:56)
TestCode(tc) ==
  IF tc.pair = "test"
  THEN IF FalsyTest(tc) THEN "" ELSE tc.test
  ELSE tc.test

\* str(expected) for expected = tc.get("expected_output") or
\* tc.get("expected", "") (runner.py:57, 76)
ExpectedValue(tc) ==
  IF tc.pair = "test"
  THEN IF FalsyExpected(tc) THEN <<>> ELSE tc.expected
  ELSE tc.expected

\* the body of the loop for a test case whose expression returns or raises
\* an Exception (runner.py:56-126)
RunOne(ns, k, tc) ==
  LET ev == EvalIn(ns, TestCode(tc))
      actual == Actual(ev)
      c == Compare(actual, Strip(ExpectedValue(tc)))
  IN  IF ev.kind = "raise"
      THEN TestResult(k, FALSE, TestCode(tc), ExpectedValue(tc), None, Some(ev.msg))
      ELSE TestResult(k, c.passed, TestCode(tc), c.expected, Some(actual), None)

(***************************************************************************)
(* The payloads a runner process may be given.                             *)
(***************************************************************************)
E5 == <<Five>>
E5Padded == <<WS, Five, WS>>
E6 == <<NumText("int", 6 * ONE)>>
ENone == <<T("None")>>
\* "np.array([[2.0], [3.0]])"
ENpColumn == NpArrayExpr(ArrText("list", Column))
\* "np.array([2.0, 3.0])"
ENpRow == NpArrayExpr(ArrText("list", Row))
\* "np.array([2.0, 3.0, 4.0])"
ENpRow3 == NpArrayExpr(ArrText("list", <<<<2 * ONE, 3 * ONE, 4 * ONE>>>>))
\* "np.array([5.0])"
ENpFive == NpArrayExpr(ArrText("list", <<<<5 * ONE>>>>))
\* "np.bogus": starts with "np." and cannot be evaluated
\* "np.array(5.0)"
ENpScalar == <<NpPrefix, T("array("), NumText("float", 5 * ONE), T(")")>>
\* "np.array( [2.0, 3.0])"
ENpRowBlank == <<NpPrefix, T("array("), Blank, ArrText("list", Row), T(")")>>
ENpBogus == <<NpPrefix, T("bogus")>>
\* "[[2.]\n [3.]]", the text numpy prints, given as a plain literal
EColumnText == <<ArrText("npstr", Column)>>
E0 == <<Zero>>
E1 == <<NumText("int", ONE)>>
EEmpty == <<>>
\* "np.foo bar": starts with "np." and is no expression
ENpSpaced == <<NpPrefix, T("foo"), Blank, T("bar")>>
\* "careful"
ECareful == <<T("careful")>>

TestCases ==
  {TestCase("add(2, 3)", E5), TestCase("add(2, 3)", E5Padded), TestCase("add(2, 3)", E6),
   TestCase("pad()", E5), TestCase("show()", E5), TestCase("nothing()", ENone),
   TestCase("blank()", ENone), TestCase("boom()", E5), TestCase("exit()", E5),
   TestCase(NotAString, E5),
   TestCase("col()", ENpColumn), TestCase("col()", ENpRow), TestCase("col()", EColumnText),
   TestCase("near()", ENpRow), TestCase("off()", ENpRow), TestCase("near()", ENpRow3),
   TestCase("row()", ENpRow), TestCase("flat()", ENpColumn),
   TestCase("add(2, 3)", ENpBogus), TestCase("add(2, 3)", ENpColumn),
   TestCase("pad()", ENpBogus), TestCase("pad()", ENpFive), TestCase("edge()", ENpRow),
   TestCase("add(2, 3)", ENpScalar), TestCase("near()", ENpRowBlank),
   Alternate("add(2, 3)", E5), TestCase("zero()", E0), Alternate("zero()", E0),
   Keyed("test", "zero()", E0, TRUE), Keyed("input", "zero()", E0, TRUE),
   TestCase("", EEmpty), Alternate("", EEmpty),
   TestCase("blank()", EEmpty), Alternate("blank()", EEmpty),
   TestCase("spaced()", ENpSpaced),
   TestCase("warn()", E5), TestCase("warnonly()", ECareful),
   TestCase("bump()", E1), TestCase("bump_boom()", E1), TestCase("peek()", E1),
   TestCase(StatusObject, E1)}

Items == TestCases \cup {NonObjectItem}

\* the value of "test_cases": a list, or null, or {}, or the key is missing
TestList(items) == [shape |-> "list", items |-> items]
TestsNull == [shape |-> "null", items |-> <<>>]
TestsEmptyObject == [shape |-> "object", items |-> <<>>]
TestsMissing == [shape |-> "missing", items |-> <<>>]

ListsUpTo(n) == UNION {[1..m -> Items] : m \in 0..n}

\* the value of "code": text that defines the functions ("defs"), that also
\* prints while it is executed ("prints"), that raises an Exception
\* ("raises"), one without a message ("raisesbare"), one in the handler of
\* another ("reraises"), that calls sys.exit(0) ("exits"), that does not
\* compile ("badsyntax"); a number ("notstr")
\* and code that prints a line while it is executed: "loading" ("prints"),
\* "{ x" ("printsbrace"), the JSON text {"status": "ok"} ("printsdoc")
PrintingCodes == {"prints", "printsbrace", "printsdoc"}
Printed(code) ==
  CASE code = "prints" -> <<T("loading"), WS>>
    [] code = "printsbrace" -> <<Brace, T("x"), WS>>
    [] code = "printsdoc" -> <<J(Forged("object", {"status"}, TRUE, "ok", <<>>, None)), WS>>
    [] OTHER -> <<>>
RunningCodes == {"defs"} \cup PrintingCodes
RunnerCodes ==
  RunningCodes \cup {"raises", "raisesbare", "reraises", "exits", "notstr", "badsyntax"}

\* standard input: not JSON, JSON that is no object ([]), or an object
NotJson == [shape |-> "notjson"]
NonObject == [shape |-> "nonobject"]
Object(code, tests) == [shape |-> "object", code |-> code, tests |-> tests]

Stdins ==
  {NotJson, NonObject}
  \cup {Object(c, t) : c \in RunnerCodes, t \in {TestsNull, TestsEmptyObject, TestsMissing}}
  \cup {Object(c, TestList(l)) : c \in {"defs", "prints"}, l \in ListsUpTo(MaxTests)}
  \cup {Object(c, TestList(l)) : c \in RunnerCodes \ {"defs", "prints"}, l \in ListsUpTo(1)}

(***************************************************************************)
(* The documents of the runner.                                            *)
(***************************************************************************)
\* {"status": "error", "error": msg, "results": []} (runner.py:47-51,
\* 153-162)
RunnerError(msg) ==
  [type |-> "object", keys |-> {"status", "error", "results"}, statusFirst |-> TRUE,
   status |-> "error", results |-> <<>>, error |-> Some(msg), warning |-> None]

\* {"status": "success", "results": results, "error": None}
\* (runner.py:128-132)
RunnerSuccess(res) ==
  [type |-> "object", keys |-> {"status", "results", "error"}, statusFirst |-> TRUE,
   status |-> "success", results |-> res, error |-> None, warning |-> None]

InvalidJsonMsg == <<T("Invalid JSON input: "), T("Expecting value: line 1 column 1 (char 0)")>>
RunnerErrorMsg(msg) == <<T("Runner error: "), T(msg)>>
CodeTypeErrorMsg == CodeExecutionError(RaisedTypeError)
CodeSyntaxErrorMsg == CodeExecutionError(RaisedSyntaxError)
CodeBareErrorMsg == CodeExecutionError(RaisedValueError)
CodeChainedErrorMsg == CodeExecutionError(RaisedInHandler)

(***************************************************************************)
(* Steps of one runner process: python runner.py (runner.py:135-166).      *)
(***************************************************************************)
\* the payload holds a test case whose numeric comparison the rounding of
\* float64 decides
RoundingDecides(stdin) ==
  /\ stdin.shape = "object"
  /\ stdin.tests.shape = "list"
  /\ \E k \in 1..Len(stdin.tests.items) :
       stdin.tests.items[k].obj /\ stdin.tests.items[k].test = "edge()"

RunnerInit ==
  /\ InitCalls({})
  /\ image = "deepml-sandbox:latest"
  /\ memory = "512m"
  /\ rstdin \in Stdins
  /\ rround \in (IF RoundingDecides(rstdin) THEN BOOLEAN ELSE {FALSE})
  /\ rpc = "read"
  /\ rprinted = FALSE
  /\ rk = 0
  /\ rns = 0
  /\ rresults = <<>>
  /\ rdoc = NoDoc
  /\ rstdout = <<>>
  /\ rexit = -1

\* main() leaves for its print with the value doc
ToPrint(doc) ==
  /\ rdoc' = doc
  /\ rpc' = "emit"

\* the interpreter exits on a SystemExit nothing catches: "except Exception"
\* does not, in run_tests or in main
SystemExits(rc) ==
  /\ rpc' = "exited"
  /\ rexit' = rc

\* json.loads(sys.stdin.read()), payload.get("code", ""),
\* payload.get("test_cases", []) (runner.py:139-144) and the handlers of
\* main() for what they raise (runner.py:151-162)
RunnerRead ==
  /\ rpc = "read"
  /\ CASE rstdin.shape = "notjson" -> ToPrint(RunnerError(InvalidJsonMsg))
       [] rstdin.shape = "nonobject" ->
            ToPrint(RunnerError(RunnerErrorMsg("'list' object has no attribute 'get'")))
       [] OTHER -> rpc' = "exec" /\ UNCHANGED rdoc
  /\ UNCHANGED <<hvars, rround, rstdin, rprinted, rk, rns, rresults, rstdout, rexit>>

\* exec(code, namespace) and its handler (runner.py:44-51); standard output
\* is the process's own while the code runs
RunnerExec ==
  /\ rpc = "exec"
  /\ CASE rstdin.code = "defs" ->
            /\ rpc' = "tests"
            /\ UNCHANGED <<rdoc, rstdout, rprinted, rexit>>
       [] rstdin.code \in PrintingCodes ->
            /\ rpc' = "tests"
            /\ rstdout' = rstdout \o Printed(rstdin.code)
            /\ rprinted' = TRUE
            /\ UNCHANGED <<rdoc, rexit>>
       [] rstdin.code = "raises" ->
            /\ ToPrint(RunTests(TRUE, <<>>))
            /\ UNCHANGED <<rstdout, rprinted, rexit>>
       [] rstdin.code = "notstr" ->
            /\ ToPrint(RunnerError(CodeTypeErrorMsg))
            /\ UNCHANGED <<rstdout, rprinted, rexit>>
       [] rstdin.code = "badsyntax" ->
            /\ ToPrint(RunnerError(CodeSyntaxErrorMsg))
            /\ UNCHANGED <<rstdout, rprinted, rexit>>
       [] rstdin.code = "raisesbare" ->
            /\ ToPrint(RunnerError(CodeBareErrorMsg))
            /\ UNCHANGED <<rstdout, rprinted, rexit>>
       [] rstdin.code = "reraises" ->
            /\ ToPrint(RunnerError(CodeChainedErrorMsg))
            /\ UNCHANGED <<rstdout, rprinted, rexit>>
       [] OTHER ->
            /\ SystemExits(0)
            /\ UNCHANGED <<rdoc, rstdout, rprinted>>
  /\ UNCHANGED <<hvars, rround, rstdin, rk, rns, rresults>>

\* what the for statement iterates over: the items of a list, nothing for {}
\* and for the default []
Iterated(tests) == IF tests.shape = "list" THEN tests.items ELSE <<>>

\* "for i, tc in enumerate(test_cases)" on a value that cannot be iterated:
\* the TypeError reaches main() (runner.py:54, 157-162)
RunnerNotIterable ==
  /\ rpc = "tests"
  /\ rstdin.tests.shape = "null"
  /\ ToPrint(RunnerError(RunnerErrorMsg("'NoneType' object is not iterable")))
  /\ UNCHANGED <<hvars, rround, rstdin, rprinted, rk, rns, rresults, rstdout, rexit>>

RunnerTest_PerTestError ==
  /\ rpc = "tests"
  /\ rstdin.tests.shape # "null"
  /\ rk < Len(Iterated(rstdin.tests))
  /\ LET tc == Iterated(rstdin.tests)[rk + 1]
     IN  IF ~tc.obj
         THEN /\ rresults' = Append(rresults,
                   TestResult(rk + 1, FALSE, "", <<>>, None,
                              Some(<<T("AttributeError"), T(": "),
                                     T("'int' object has no attribute 'get'")>>)))
              /\ rk' = rk + 1
              /\ UNCHANGED <<rpc, rdoc, rexit, rns>>
         ELSE IF EvalIn(rns, TestCode(tc)).kind = "exit"
         THEN /\ SystemExits(0)
              /\ UNCHANGED <<rk, rns, rresults, rdoc>>
         ELSE /\ rresults' = Append(rresults, RunOne(rns, rk + 1, tc))
              /\ rns' = Effect(rns, TestCode(tc))
              /\ rk' = rk + 1
              /\ UNCHANGED <<rpc, rdoc, rexit>>
  /\ UNCHANGED <<hvars, rround, rstdin, rprinted, rstdout>>

\* one pass of the loop body (runner.py:54-126)
RunnerTest ==
  /\ rpc = "tests"
  /\ rstdin.tests.shape # "null"
  /\ rk < Len(Iterated(rstdin.tests))
  /\ LET tc == Iterated(rstdin.tests)[rk + 1]
     IN  IF ~tc.obj
         THEN \* tc.get raises AttributeError outside the try of the loop
              /\ ToPrint(RunnerError(RunnerErrorMsg("'int' object has no attribute 'get'")))
              /\ UNCHANGED <<rk, rns, rresults, rexit>>
         ELSE IF EvalIn(rns, TestCode(tc)).kind = "exit"
         THEN /\ SystemExits(0)
              /\ UNCHANGED <<rk, rns, rresults, rdoc>>
         ELSE /\ rresults' = Append(rresults, RunOne(rns, rk + 1, tc))
              /\ rns' = Effect(rns, TestCode(tc))
              /\ rk' = rk + 1
              /\ UNCHANGED <<rpc, rdoc, rexit>>
  /\ UNCHANGED <<hvars, rround, rstdin, rprinted, rstdout>>

\* the loop is over: run_tests returns (runner.py:128-132)
RunnerReturn ==
  /\ rpc = "tests"
  /\ rstdin.tests.shape # "null"
  /\ rk = Len(Iterated(rstdin.tests))
  /\ ToPrint(RunnerSuccess(rresults))
  /\ UNCHANGED <<hvars, rround, rstdin, rprinted, rk, rns, rresults, rstdout, rexit>>

\* print(json.dumps(result)), and main() returns (runner.py:150-162)
RunnerEmit ==
  /\ rpc = "emit"
  /\ rstdout' = rstdout \o RunnerStdout(rdoc)
  /\ rpc' = "exited"
  /\ rexit' = 0
  /\ UNCHANGED <<hvars, rround, rstdin, rprinted, rk, rns, rresults, rdoc>>

RunnerNext ==
  \/ RunnerRead
  \/ RunnerExec
  \/ RunnerNotIterable
  \/ RunnerTest
  \/ RunnerReturn
  \/ RunnerEmit

\* one runner process on any payload
RunnerSpec == RunnerInit /\ [][RunnerNext]_vars

RunnerExited == rpc = "exited"

\* the JSON documents in the text
Documents(str) == SelectSeq(str, LAMBDA tok : tok.t = "json")

(***************************************************************************)
(* Properties of the Sandbox Runner.                                       *)
(***************************************************************************)
\* C11: every run of the runner writes exactly one JSON result document to
\* standard output, whatever the submitted code or a test expression does,
\* an interpreter-exit request included.
C11_OneDocument == RunnerExited => Len(Documents(rstdout)) = 1

\* the payload asks the interpreter to exit, in the code or in a test
ExitRequested(stdin) ==
  /\ stdin.shape = "object"
  /\ \/ stdin.code = "exits"
     \/ \E j \in 1..Len(stdin.tests.items) :
          stdin.tests.items[j].obj /\ EvalIn(0, TestCode(stdin.tests.items[j])).kind = "exit"

\* not JSON, JSON that is no object, or an object whose code is no text or
\* whose test_cases is no list of objects with a text to evaluate
Malformed(stdin) ==
  \/ stdin.shape \in {"notjson", "nonobject"}
  \/ /\ stdin.shape = "object"
     /\ \/ stdin.code = "notstr"
        \/ stdin.tests.shape \in {"null", "object"}
        \/ \E j \in 1..Len(stdin.tests.items) :
             \/ ~stdin.tests.items[j].obj
             \/ stdin.tests.items[j].test = NotAString

\* the runner's document, the last line of its standard output
Last(out) == out[Len(out) - 1]

\* the runner printed one document, after whatever the code printed itself;
\* it has status "error", an error that is not null and no results
OnlyAnErrorDocument(out) ==
  /\ Len(out) >= 2
  /\ rdoc # NoDoc
  /\ SubSeq(out, Len(out) - 1, Len(out)) = RunnerStdout(rdoc)
  /\ Last(out).d.status = "error"
  /\ Last(out).d.error.some
  /\ Last(out).d.results = <<>>

\* C12: for every malformed payload (not JSON, not an object, code or
\* test_cases of the wrong shape) the runner's output is a single JSON
\* document with status "error" and a non-null error, and no results are
\* produced.  Payloads that request an interpreter exit are left to C11.
C12_MalformedPayload ==
  (RunnerExited /\ Malformed(rstdin) /\ ~ExitRequested(rstdin))
    => (OnlyAnErrorDocument(rstdout) /\ rresults = <<>>)

\* Step 1 raised: exec(code) did not return
CodeRaises(stdin) ==
  /\ stdin.shape = "object"
  /\ stdin.code \in {"raises", "raisesbare", "reraises", "notstr", "badsyntax", "exits"}

\* "Code execution error: <type>: <message>"
NamesTypeAndMessage(err) ==
  /\ err.some
  /\ Len(err.s) >= 4
  /\ err.s[1] = T("Code execution error: ")
  /\ err.s[3] = T(": ")

\* C13: if executing the submitted code raises, the run is aborted: no test
\* case is evaluated, the runner emits status "error" with an error naming
\* the exception type and message, and results is empty.
C13_CodeRaisesAborts ==
  (RunnerExited /\ CodeRaises(rstdin))
    => /\ rk = 0
       /\ OnlyAnErrorDocument(rstdout)
       /\ NamesTypeAndMessage(Last(rstdout).d.error)

\* what execute_code returns for the standard output and exit code of this
\* runner process
HostResult ==
  ExecuteCodeResult(Value(Completed(rexit, rstdout, <<>>, TRUE)), DEFAULT_TIMEOUT)

\* the runner printed its document as the last line of standard output
Emitted ==
  /\ rdoc # NoDoc
  /\ Len(rstdout) >= 2
  /\ SubSeq(rstdout, Len(rstdout) - 1, Len(rstdout)) = RunnerStdout(rdoc)

\* the payload is well-formed, its code runs, and evaluating test case k
\* raises
RaisesAt(stdin, k) ==
  /\ stdin.shape = "object"
  /\ stdin.code \in RunningCodes
  /\ stdin.tests.shape = "list"
  /\ \A j \in 1..Len(stdin.tests.items) : stdin.tests.items[j].obj
  /\ k \in 1..Len(stdin.tests.items)
  /\ EvalIn(0, TestCode(stdin.tests.items[k])).kind \in {"raise", "exit"}

\* C14: an exception raised while evaluating test case k is confined to it:
\* its result has passed = false, actual = null and error set, every later
\* test case gets its own result, the runner's top-level error stays null,
\* and the host reports success = false with error = null.
C14_TestExceptionConfined ==
  \A k \in 1..MaxTests :
    (RunnerExited /\ RaisesAt(rstdin, k))
      => /\ Len(rresults) = Len(rstdin.tests.items)
         /\ ~rresults[k].passed
         /\ rresults[k].actual = None
         /\ rresults[k].error.some
         /\ Emitted
         /\ Last(rstdout).d.results = rresults
         /\ Last(rstdout).d.error = None
         /\ ~HostResult.raised
         /\ ~HostResult.success
         /\ HostResult.error = None

\* the run was not fatal: the runner printed a status "success" document
NonFatal ==
  /\ RunnerExited
  /\ Emitted
  /\ Last(rstdout).d.status = "success"

\* C15: for every run that is not fatal, results keeps the order of the
\* test cases: results[i].test_number = i+1 (0-based i) and results[i].input
\* is the expression of the i-th test case, whether it passed, failed or
\* raised.
C15_OrderPreserved ==
  NonFatal =>
    LET res == Last(rstdout).d.results
        items == Iterated(rstdin.tests)
    IN  /\ Len(res) = Len(items)
        /\ \A i \in 1..Len(res) :
             /\ res[i].test_number = i
             /\ res[i].input = items[i].test

\* a run of two or more test cases in which one raised and another passed
C15_Witness ==
  /\ NonFatal
  /\ Len(rresults) >= 2
  /\ \E i, j \in 1..Len(rresults) :
       /\ i < j
       /\ rresults[i].errored
       /\ rresults[j].passed
       /\ rresults[j].test_number = j

\* C16: for every test case whose expected value is a plain literal (its
\* trimmed text does not start with "np.") and whose evaluation does not
\* raise, passed = (actual.strip() = expected.strip()).  The expected value
\* is a string, which is what strip() is defined for.
C16_PlainLiteral ==
  \A i \in 1..Len(rresults) :
    LET tc == Iterated(rstdin.tests)[i]
    IN  (~tc.xnum /\ ~StartsWithNp(Strip(tc.expected)) /\ rresults[i].actual.some)
          => (rresults[i].passed <=> Strip(rresults[i].actual.s) = Strip(tc.expected))

\* a test passed whose actual text " 5 " equals the expected "5" only after
\* trimming
C16_Witness ==
  \E i \in 1..Len(rresults) :
    /\ rresults[i].passed
    /\ rresults[i].actual = Some(<<WS, Five, WS>>)
    /\ Iterated(rstdin.tests)[i].expected = E5

\* d < 1e-8 + 1e-5 * |b| and d > 1e-8 + 1e-5 * |b|, d and b in units of
\* 1e-8: 100000 * (d - 1) < |b| and 100000 * (d - 1) > |b|, without the
\* product
Inside(d, b) == d - 1 <= (Abs(b) - 1) \div 100000
Outside(d, b) == d - 1 > Abs(b) \div 100000

SameShape(a, b) == Rows(a) = Rows(b) /\ \A r \in 1..Rows(a) : Len(a[r]) = Len(b[r])

\* every |a - b| < 1e-8 + 1e-5 * |b|: on the bound itself the rounding of
\* float64 decides
WithinTolerance(a, b) ==
  \A r \in 1..Rows(a) : \A c \in 1..Len(a[r]) : Inside(Abs(a[r][c] - b[r][c]), b[r][c])

\* the expected value of the test case is a numeric-array expression and the
\* actual text parses to an array of the same shape within tolerance
NumericallyEqual(tc, actual) ==
  /\ StartsWithNp(Strip(tc.expected))
  /\ EvalExpected(Strip(tc.expected)).ok
  /\ ParseActual(actual).ok
  /\ SameShape(ParseActual(actual).val, EvalExpected(Strip(tc.expected)).val)
  /\ WithinTolerance(ParseActual(actual).val, EvalExpected(Strip(tc.expected)).val)

\* C17: for every test case whose expected value is a numeric-array
\* expression and whose actual output parses to an array of the same shape
\* with every element within floating-point tolerance, passed is true even
\* when the string forms differ.
C17_NumericTolerance ==
  \A i \in 1..Len(rresults) :
    (rresults[i].actual.some
     /\ NumericallyEqual(Iterated(rstdin.tests)[i], rresults[i].actual.s))
      => rresults[i].passed

\* a passed test whose actual text "[2.0000001, 3.0]" differs from the text
\* of the expected array, even with whitespace normalised
C17_Witness ==
  \E i \in 1..Len(rresults) :
    /\ rresults[i].passed
    /\ rresults[i].actual.some
    /\ NumericallyEqual(Iterated(rstdin.tests)[i], rresults[i].actual.s)
    /\ ParseActual(rresults[i].actual.s).val # EvalExpected(Iterated(rstdin.tests)[i].expected).val
    /\ Normalize(rresults[i].actual.s) # Normalize(rresults[i].expected)

(***************************************************************************)
(* Further properties of the Host Executor.                                *)
(***************************************************************************)
\* the number of docker run commands call i has given so far
RunsStarted(i) == Cardinality({k \in 1..Len(log[i]) : IsRun(log[i][k])})

\* C19: each call starts the execution invocation at most once, and exactly
\* once when both probes succeed; after a timeout, a non-zero exit or
\* undecodable output it starts no second isolated process.
C19_RunAtMostOnce ==
  \A i \in calls :
    /\ RunsStarted(i) <= 1
    /\ (Done(i) /\ seen[i].health = "rc0" /\ seen[i].image = "rc0") => RunsStarted(i) = 1
    /\ (cont[i] # "none") => RunsStarted(i) = 1

\* calls that have returned after one docker run that timed out, exited
\* non-zero, or left output that is no JSON
C19_Witness ==
  \E i \in calls :
    /\ Done(i)
    /\ RunsStarted(i) = 1
    /\ \/ seen[i].run = "timeout"
       \/ (seen[i].run = "exited" /\ proc[i].rc # 0)
       \/ (seen[i].run = "exited" /\ proc[i].rc = 0 /\ ~JsonLoads(proc[i].out).ok)

\* stdout.find('{'), the token it falls in; 0 when there is none
FindBrace(str) ==
  LET S == {k \in 1..Len(str) : HasBrace(str[k])}
  IN  IF S = {} THEN 0 ELSE CHOOSE m \in S : \A k \in S : m <= k

\* the chain as the claim words it: the whole text, else the slice at the
\* right-most '{"status":', else the slice at the first '{', else the
\* "Invalid output" document
ChainAsClaimed(stdout) ==
  LET st == RFindStatus(stdout)
      br == FindBrace(stdout)
      step1 == JsonLoads(stdout)
      step2 == IF st # 0 /\ ~NestedStatus(stdout[st].d)
               THEN JsonLoads(Suffix(stdout, st)) ELSE NoJson
      step3 == IF br # 0 THEN JsonLoads(Suffix(stdout, br)) ELSE NoJson
  IN  IF step1.ok THEN step1.val
      ELSE IF step2.ok THEN step2.val
      ELSE IF step3.ok THEN step3.val
      ELSE ErrDoc(InvalidOutput(stdout))

\* the document without the warning the decoding may attach
SansWarning(doc) == [doc EXCEPT !.keys = @ \ {"warning"}, !.warning = None]

\* C20: for a child that exits with code 0, the decoded document is that of
\* the ordered chain: (1) the whole stdout; (2) the slice at the right-most
\* '{"status":'; (3) the slice at the first '{'; (4) status = error with
\* "Invalid output from sandbox: " and the first 500 characters; each step
\* tried exactly when the one before gave no valid JSON.
C20_DecodingChain ==
  \A i \in calls :
    (pc[i] \in {"return", "done"} /\ seen[i].run = "exited"
     /\ proc[i].rc = 0 /\ proc[i].decodable)
      => SansWarning(ret[i].val) = SansWarning(ChainAsClaimed(Strip(proc[i].out)))

\* docker run of call i returned with the exit code and output of proc[i],
\* and run_in_docker_cli has returned
Decoded(i) == pc[i] \in {"return", "done"} /\ seen[i].run = "exited" /\ proc[i].decodable

\* the decoding of a zero-exit child gave a document only after text in
\* front of it was dropped
RecoveredByDiscarding(i) ==
  /\ Decoded(i)
  /\ proc[i].rc = 0
  /\ ~JsonLoads(proc[i].out).ok
  /\ ret[i].val # ErrDoc(InvalidOutput(Strip(proc[i].out)))

\* C21: whenever decoding recovers a valid JSON document only by discarding
\* non-empty leading text of the child's stdout, the call does not fail
\* because of that text and the discarded text is attached to the decoded
\* result as a "warning" field.
C21_WarningAttached ==
  \A i \in calls :
    RecoveredByDiscarding(i) =>
      LET out == Strip(proc[i].out)
          discarded == Strip(Before(out, Len(out) - 1))
      IN  /\ "warning" \in ret[i].val.keys
          /\ ret[i].val.warning.some
          /\ Contains(ret[i].val.warning.s, discarded)
          /\ Done(i) => ~result[i].raised

\* the output of the child of call i holds no parsable JSON: it is no text
\* at all (not UTF-8), or text json.loads does not accept
NoParsableJson(i) == ~proc[i].decodable \/ ~JsonLoads(proc[i].out).ok

\* C22: when the child exits with a non-zero code and its output holds no
\* parsable JSON, the reported error is the child's error stream if that is
\* not empty, otherwise its standard output if that is not empty, otherwise
\* "Exit code: <code>"; success is false and results is empty.  Read in the
\* code's favour where the claim is silent: the white space around a stream
\* is not counted as part of it.
C22_NonZeroExitError ==
  \A i \in calls :
    (Done(i) /\ seen[i].run = "exited" /\ proc[i].rc # 0 /\ NoParsableJson(i)) =>
      /\ ~result[i].raised
      /\ ~result[i].success
      /\ result[i].results = <<>>
      /\ result[i].error =
           Some(IF Strip(proc[i].err) # <<>> THEN Strip(proc[i].err)
                ELSE IF Strip(proc[i].out) # <<>> THEN Strip(proc[i].out)
                ELSE <<T("Exit code: ")>> \o DecDigits(proc[i].rc))

\* C27: whenever the child exits with a non-zero code, execute_code returns
\* success = false and results = [], even if the child's stdout holds a
\* complete status = success document.
C27_NonZeroNeverDecoded ==
  \A i \in calls :
    (Done(i) /\ seen[i].run = "exited" /\ proc[i].rc # 0) =>
      /\ ~result[i].raised
      /\ ~result[i].success
      /\ result[i].results = <<>>

\* a call has returned for a child that exited with code 1 and left a
\* status = success document with a passed test on its stdout
C27_Witness ==
  \E i \in calls :
    /\ Done(i)
    /\ seen[i].run = "exited"
    /\ proc[i] = Proc(1, RunnerStdout(RunTests(FALSE, <<"pass">>)), <<>>, TRUE)
    /\ ~result[i].success
    /\ result[i].results = <<>>

\* the number of test cases among the first n that add one to counter
RECURSIVE Bumps(_, _)
Bumps(items, n) ==
  IF n = 0 THEN 0
  ELSE Bumps(items, n - 1)
       + (IF TestCode(items[n]) \in {"bump()", "bump_boom()"} THEN 1 ELSE 0)

\* what evaluating test case i of the payload did
Evaluation(i) ==
  EvalIn(Bumps(Iterated(rstdin.tests), i - 1), TestCode(Iterated(rstdin.tests)[i]))

\* C23: for every test case whose evaluation does not raise: if the
\* evaluation wrote text to the captured output streams, actual is that
\* captured text trimmed; otherwise actual is the stringified return value,
\* and "None" when that value is None.
C23_ActualValue ==
  \A i \in 1..Len(rresults) :
    rresults[i].actual.some =>
      LET ev == Evaluation(i)
      IN  IF ev.out # <<>> \/ ev.err # <<>>
          THEN rresults[i].actual.s = Strip(ev.out \o ev.err)
          ELSE rresults[i].actual.s = (IF ev.val.some THEN ev.val.s ELSE <<T("None")>>)

\* the expected string of test case i starts with "np." and its evaluation
\* did not raise
NpCase(i) ==
  /\ rresults[i].actual.some
  /\ StartsWithNp(Strip(ExpectedValue(Iterated(rstdin.tests)[i])))

\* C24 as claimed: for a test case whose expected string starts with "np.",
\* if the evaluation of the expected string or the reconstruction of actual
\* fails, passed is whitespace-normalized equality between actual and the
\* stringified expected value, and never another comparison.
C24_FallbackNormalized ==
  \A i \in 1..Len(rresults) :
    NpCase(i) =>
      LET x == Strip(ExpectedValue(Iterated(rstdin.tests)[i]))
          actual == rresults[i].actual.s
      IN  (~EvalExpected(x).ok \/ ~ParseActual(actual).ok)
            => (rresults[i].passed <=> Normalize(actual) = Normalize(rresults[i].expected))

\* C24 as amended: if the expected string evaluates and the reconstruction
\* of actual or the tolerance comparison fails, passed is whitespace-
\* normalized equality between actual and the text of the evaluated expected
\* value; if the expected string does not evaluate, passed is trimmed
\* equality between actual and the expected string as given; the tolerance
\* comparison decides passed exactly when both succeed and it does not fail.
C24_FallbackAmended ==
  \A i \in 1..Len(rresults) :
    NpCase(i) =>
      LET x == Strip(ExpectedValue(Iterated(rstdin.tests)[i]))
          actual == rresults[i].actual.s
          ev == EvalExpected(x)
          pa == ParseActual(actual)
          compared == ev.ok /\ pa.ok /\ Broadcast(pa.val, ev.val)
      IN  /\ (ev.ok /\ ~compared) =>
               (rresults[i].passed <=>
                  Normalize(actual) = Normalize(ev.shown))
          /\ ~ev.ok => (rresults[i].passed <=> Strip(actual) = x)
          /\ compared =>
               LET R == 1..Max(Rows(pa.val), Rows(ev.val))
                   C == 1..Max(Cols(pa.val), Cols(ev.val))
                   d(r, c) == Abs(At(pa.val, r, c) - At(ev.val, r, c))
               IN  /\ (\A r \in R : \A c \in C : Inside(d(r, c), At(ev.val, r, c)))
                         => rresults[i].passed
                   /\ (\E r \in R : \E c \in C : Outside(d(r, c), At(ev.val, r, c)))
                         => ~rresults[i].passed

\* a test passed by the normalized comparison: its actual text is the
\* array printed on one line, which cannot be reconstructed, and differs
\* from the text of the expected array before whitespace is normalized
C24_Witness ==
  \E i \in 1..Len(rresults) :
    /\ NpCase(i)
    /\ EvalExpected(Strip(ExpectedValue(Iterated(rstdin.tests)[i]))).ok
    /\ ~ParseActual(rresults[i].actual.s).ok
    /\ rresults[i].passed
    /\ Strip(rresults[i].actual.s) # rresults[i].expected

\* C25: test cases are evaluated one at a time in input order against one
\* shared namespace: test case k sees the namespace of Step 1 followed by the
\* effects of test cases 1..k-1, those that raised included.
C25_SharedNamespace ==
  /\ rns = Bumps(Iterated(rstdin.tests), rk)
  /\ Len(rresults) = rk
  /\ \A i \in 1..Len(rresults) :
       LET e == TestCode(Iterated(rstdin.tests)[i])
           before == Bumps(Iterated(rstdin.tests), i - 1)
       IN  /\ rresults[i].test_number = i
           /\ e = "peek()" => rresults[i].actual = Some(<<NumText("int", before * ONE)>>)
           /\ e = "bump()" => rresults[i].actual = Some(<<NumText("int", (before + 1) * ONE)>>)

\* peek() returned 1 right after a test case that changed counter and raised
C25_Witness ==
  \E i \in 2..Len(rresults) :
    /\ TestCode(Iterated(rstdin.tests)[i - 1]) = "bump_boom()"
    /\ rresults[i - 1].errored
    /\ TestCode(Iterated(rstdin.tests)[i]) = "peek()"
    /\ rresults[i].actual = Some(<<NumText("int", ONE)>>)

\* C26: a test case given as {"test": e, "expected_output": x} and the same
\* case given as {"input": e, "expected": x} yield the same result entry,
\* for every e and x, empty or falsy values included.  Expressions that read
\* or change counter are left out: the two entries come from one run.
C26_EitherKeyPair ==
  \A i, j \in 1..Len(rresults) :
    LET a == Iterated(rstdin.tests)[i]
        b == Iterated(rstdin.tests)[j]
    IN  (/\ a.pair = "test" /\ b.pair = "input"
         /\ a.test = b.test /\ a.expected = b.expected /\ a.xnum = b.xnum
         /\ a.test \notin {"bump()", "bump_boom()", "peek()"})
          => [rresults[i] EXCEPT !.test_number = 0] = [rresults[j] EXCEPT !.test_number = 0]

\* C28: for a zero-exit child whose stdout is text followed by the runner's
\* result document, what the host returns is what it returns for the
\* document alone.
C28_LeadingTextIgnored ==
  (RunnerExited /\ Emitted /\ rstdin.shape = "object" /\ rstdin.code \in PrintingCodes) =>
    LET alone == ExecuteCodeResult(Value(Completed(0, RunnerStdout(rdoc), <<>>, TRUE)),
                                   DEFAULT_TIMEOUT)
    IN  /\ HostResult.raised = alone.raised
        /\ HostResult.success = alone.success
        /\ HostResult.results = alone.results
        /\ HostResult.error = alone.error

\* C30: a test-case entry at position k that is no JSON object aborts the
\* whole run: the runner emits status "error" with a "Runner error" message
\* and results = [], the results of test cases 1..k-1 are discarded, and no
\* per-test error is recorded for entry k.
C30_NonObjectAborts ==
  (RunnerExited /\ rstdin.shape = "object" /\ rstdin.code \in RunningCodes
   /\ rstdin.tests.shape # "null")
    => \A k \in 1..Len(Iterated(rstdin.tests)) :
         (/\ ~Iterated(rstdin.tests)[k].obj
          /\ \A j \in 1..(k - 1) :
               /\ Iterated(rstdin.tests)[j].obj
               /\ Evaluation(j).kind # "exit")
           => /\ OnlyAnErrorDocument(rstdout)
              /\ Last(rstdout).d.error.s[1] = T("Runner error: ")
              /\ Len(rresults) = k - 1

\* the runner has exited on a non-object entry that came after a test case
\* whose result it had computed
C30_Witness ==
  /\ RunnerExited
  /\ rk >= 1
  /\ rk < Len(Iterated(rstdin.tests))
  /\ ~Iterated(rstdin.tests)[rk + 1].obj
  /\ rresults # <<>>
  /\ Last(rstdout).d.results = <<>>

(***************************************************************************)
(* Calls on one event loop.                                                *)
(***************************************************************************)
\* call i has taken its first step and has not returned
InProgress(i) == pc[i] \notin {"idle", "done"}

Yielded_AtRun(p) == p = "wait"

\* execute_code at point p is suspended and the event loop may run another
\* task: never.  Its one await (executor.py:40) is of the coroutine
\* run_in_docker_cli, which has no await of its own: the probes, docker run
\* and docker kill are subprocess.run calls (executor.py:81, 90, 116, 155),
\* which block the thread of the loop until the process ends.
Yielded(p) == FALSE

\* the event loop runs a step of task i only when no other task is between
\* its first step and its return without being suspended
LoopTurn(i) == \A j \in CallIds \ {i} : InProgress(j) => Yielded(pc[j])

\* MaxCalls run_code requests (execution.py:15-35) handled as tasks of one
\* event loop; the child processes run beside the loop
LoopNext ==
  \E i \in CallIds :
    \/ LoopTurn(i) /\ Start(i)
    \/ LoopTurn(i) /\ HealthProbe(i)
    \/ LoopTurn(i) /\ ImageProbe(i)
    \/ LoopTurn(i) /\ StartRun(i)
    \/ ChildExits(i)
    \/ LoopTurn(i) /\ RunCompletes(i)
    \/ LoopTurn(i) /\ RunTimesOut(i)
    \/ LoopTurn(i) /\ KillStep(i)
    \/ LoopTurn(i) /\ KillReturns(i)
    \/ LoopTurn(i) /\ Return(i)

LoopSpec == InitConc /\ [][LoopNext]_vars

\* C29: execute_code never yields between its first step and its return:
\* two calls on one event loop never overlap, a call is at its health probe
\* only when every other call has not begun or has returned, and no other
\* task takes a step while a call waits for a child process.
C29_NeverYields ==
  /\ [](\A i, j \in CallIds : i # j => ~(InProgress(i) /\ InProgress(j)))
  /\ [](\A i, j \in CallIds : (i # j /\ pc[i] = "health") => pc[j] \in {"idle", "done"})
  /\ [][\A i \in CallIds :
          pc[i] \in {"health", "image", "run", "wait", "kill", "killwait"}
            => \A j \in CallIds \ {i} : pc'[j] = pc[j] /\ result'[j] = result[j]]_vars

\* one call has returned after its child ran to the end and another call,
\* begun after it, waits for its own child
C29_Witness ==
  \E i, j \in CallIds :
    /\ i # j
    /\ pc[i] = "done"
    /\ seen[i].run = "exited"
    /\ pc[j] = "wait"
    /\ cont[j] = "running"
====
